---- MODULE Spec2Model ----
(***************************************************************************)
(* Access control and performance analytics of the class-bridge backend.   *)
(*                                                                         *)
(* The relational store is modelled table by table: users (active role,    *)
(* held roles, Google token), student and teacher profiles, courses, the   *)
(* enrollment and parent/student join tables, assignments, student         *)
(* assignments, grade records and the progress report cache.  Requests are *)
(* actions; the response of the last request is kept in resp.              *)
(*                                                                         *)
(* Time is counted in seconds; instant 0 is a Monday 00:00:00.             *)
(***************************************************************************)
EXTENDS Integers, Sequences, FiniteSets, TLC

VARIABLES
    role,                 \* User.role: the active role of each user
    roles,                \* User.roles: the held roles of each user, in order
    google_access_token,  \* User.google_access_token is set
    students,             \* Student rows: id -> [user_id]
    teachers,             \* Teacher rows: id -> [user_id]
    courses,              \* Course rows: id -> [created_by_user_id, is_private, teacher_id, google_classroom_id]
    student_courses,      \* join table: set of <<student_id, course_id>>
    parent_students,      \* join table: set of <<parent_id (user), student_id>>
    assignments,          \* Assignment rows: id -> [course_id, max_points, due_date]
    student_assignments,  \* StudentAssignment rows: set of [student_id, assignment_id, grade, created_at]
    grade_records,        \* GradeRecord rows: set of [student_id, course_id, assignment_id, grade, max_grade, percentage, recorded_at]
    progress_reports,     \* ProgressReport rows: set of [id, student_id, report_type, period_start, period_end, data, generated_at]
    now,                  \* datetime.utcnow(), in seconds
    resp,                 \* the response of the last request
    report,               \* the last weekly report returned for each student
    requests,             \* the weekly report requests in progress
    tasks,                \* Task rows: set of [id, created_by_user_id, assigned_to_user_id, is_completed, completed_at, archived_at]
    faq_questions,        \* FAQQuestion rows: id -> [status, created_by_user_id]
    faq_answers           \* FAQAnswer rows: set of [id, question_id, created_by_user_id, status, is_official, content]

vars == <<role, roles, google_access_token, students, teachers, courses,
          student_courses, parent_students, assignments, student_assignments,
          grade_records, progress_reports, now, resp, report, requests,
          tasks, faq_questions, faq_answers>>

\* The tables the access checks read.
relations == <<role, roles, google_access_token, students, teachers, courses,
               student_courses, parent_students>>

\* The tables the analytics engine reads or writes.
stored == <<assignments, student_assignments, grade_records, progress_reports>>

\* The weekly report requests and their last answer.
weekly == <<report, requests>>

\* The task list and the FAQ board.
boards == <<tasks, faq_questions, faq_answers>>

-----------------------------------------------------------------------------
(* Universe *)

Roles == {"admin", "teacher", "student", "parent"}

\* The canonical order in which an initial roles column lists held roles.
RoleOrder == <<"admin", "teacher", "student", "parent">>

\* Python None / SQL NULL for a nullable id or number.
NoId == 0

\* A field left out of an update request (exclude_unset, or None in a
\* schema whose fields default to None).
NotSent == -1

Users == {1, 2}

\* The users whose initial roles column may list more than one role.
MultiRoleUsers == {1}

\* The most roles an initial roles column lists.
MaxHeldRoles == 2

\* The ids a request can name; not every id has a row.
StudentIds == {1, 2}
CourseIds == {1, 2}

Range(f) == {f[i] : i \in DOMAIN f}

\* The subsequence of RoleOrder listing exactly the roles of S.
RECURSIVE RolesSeqFrom(_, _)
RolesSeqFrom(S, i) ==
    IF i > Len(RoleOrder) THEN <<>>
    ELSE IF RoleOrder[i] \in S THEN <<RoleOrder[i]>> \o RolesSeqFrom(S, i + 1)
    ELSE RolesSeqFrom(S, i + 1)

\* The roles columns a user with active role r can have: r is always held.
HeldRoleSeqs(r, max) ==
    {RolesSeqFrom(S, 1) : S \in {T \in SUBSET Roles : r \in T /\ Cardinality(T) <= max}}

-----------------------------------------------------------------------------
(* User model *)

\* User.has_role: the role is among the held roles; a user whose roles
\* column is empty holds only the active role.
HasRole(u, r) ==
    IF roles[u] = <<>> THEN role[u] = r ELSE r \in Range(roles[u])

\* db.query(Student).filter(Student.user_id == user.id).first()
StudentOfUser(u) ==
    IF \E s \in DOMAIN students : students[s].user_id = u
    THEN CHOOSE s \in DOMAIN students : students[s].user_id = u
    ELSE NoId

\* db.query(Teacher).filter(Teacher.user_id == user.id).first()
TeacherOfUser(u) ==
    IF \E t \in DOMAIN teachers : teachers[t].user_id = u
    THEN CHOOSE t \in DOMAIN teachers : teachers[t].user_id = u
    ELSE NoId

-----------------------------------------------------------------------------
(* Access control *)

\* can_access_course with the privacy test after the role tests, open only
\* to users who got that far as a student.
can_access_course_private_last(u, cid) ==
    IF cid \notin DOMAIN courses THEN FALSE
    ELSE IF role[u] = "admin" THEN TRUE
    ELSE IF courses[cid].created_by_user_id = u THEN TRUE
    ELSE IF role[u] = "teacher"
            /\ TeacherOfUser(u) # NoId
            /\ courses[cid].teacher_id = TeacherOfUser(u) THEN TRUE
    ELSE IF role[u] = "student"
            /\ (~courses[cid].is_private
                \/ /\ StudentOfUser(u) # NoId
                   /\ <<StudentOfUser(u), cid>> \in student_courses) THEN TRUE
    ELSE IF role[u] = "parent"
            /\ \E s \in StudentIds :
                  /\ <<u, s>> \in parent_students
                  /\ <<s, cid>> \in student_courses THEN TRUE
    ELSE FALSE

\* can_access_course: the OR-chain of deps.py, in its order.
can_access_course(u, cid) ==
    IF cid \notin DOMAIN courses THEN FALSE
    ELSE IF role[u] = "admin" THEN TRUE
    ELSE IF courses[cid].created_by_user_id = u THEN TRUE
    ELSE IF ~courses[cid].is_private THEN TRUE
    ELSE IF role[u] = "teacher"
            /\ TeacherOfUser(u) # NoId
            /\ courses[cid].teacher_id = TeacherOfUser(u) THEN TRUE
    ELSE IF role[u] = "student"
            /\ StudentOfUser(u) # NoId
            /\ <<StudentOfUser(u), cid>> \in student_courses THEN TRUE
    ELSE IF role[u] = "parent"
            /\ \E s \in StudentIds :
                  /\ <<u, s>> \in parent_students
                  /\ <<s, cid>> \in student_courses THEN TRUE
    ELSE FALSE

\* _get_student_or_403 testing the active role where the code tests the
\* held roles.
get_student_or_403_active_role(sid, u) ==
    IF sid \notin DOMAIN students THEN 404
    ELSE IF role[u] = "admin" THEN 200
    ELSE IF role[u] = "student" /\ students[sid].user_id = u THEN 200
    ELSE IF role[u] = "parent" /\ <<u, sid>> \in parent_students THEN 200
    ELSE IF role[u] = "teacher"
            /\ TeacherOfUser(u) # NoId
            /\ \E c \in DOMAIN courses :
                  /\ <<sid, c>> \in student_courses
                  /\ courses[c].teacher_id = TeacherOfUser(u) THEN 200
    ELSE 403

\* _get_student_or_403 without the parent grant.
get_student_or_403_no_parent(sid, u) ==
    IF sid \notin DOMAIN students THEN 404
    ELSE IF HasRole(u, "admin") THEN 200
    ELSE IF HasRole(u, "student") /\ students[sid].user_id = u THEN 200
    ELSE IF HasRole(u, "teacher")
            /\ TeacherOfUser(u) # NoId
            /\ \E c \in DOMAIN courses :
                  /\ <<sid, c>> \in student_courses
                  /\ courses[c].teacher_id = TeacherOfUser(u) THEN 200
    ELSE 403

\* _get_student_or_403: 404 when the student row is missing, 200 when one
\* of the four grants applies, 403 otherwise.
get_student_or_403(sid, u) ==
    IF sid \notin DOMAIN students THEN 404
    ELSE IF HasRole(u, "admin") THEN 200
    ELSE IF HasRole(u, "student") /\ students[sid].user_id = u THEN 200
    ELSE IF HasRole(u, "parent") /\ <<u, sid>> \in parent_students THEN 200
    ELSE IF HasRole(u, "teacher")
            /\ TeacherOfUser(u) # NoId
            /\ \E c \in DOMAIN courses :
                  /\ <<sid, c>> \in student_courses
                  /\ courses[c].teacher_id = TeacherOfUser(u) THEN 200
    ELSE 403

\* _resolve_student_id defaulting only for a caller whose active role is
\* student.
resolve_student_id_active_role(sid, u) ==
    IF sid # NoId THEN sid
    ELSE IF role[u] = "student" /\ StudentOfUser(u) # NoId THEN StudentOfUser(u)
    ELSE NoId

\* _resolve_student_id: the supplied id, else the caller's own student
\* profile, else NoId (the 400 "student_id is required").
resolve_student_id(sid, u) ==
    IF sid # NoId THEN sid
    ELSE IF HasRole(u, "student") /\ StudentOfUser(u) # NoId THEN StudentOfUser(u)
    ELSE NoId

-----------------------------------------------------------------------------
(* Numbers: grades and points are whole numbers; a percentage is kept in   *)
(* hundredths of a percent, so round(x, 2) is a rounding to an integer.    *)

\* round(num / den, 0) for num >= 0, den > 0, ties to the even neighbour.
RoundDiv(num, den) ==
    LET q == num \div den
        r == num % den
    IN  IF 2 * r < den THEN q
        ELSE IF 2 * r > den THEN q + 1
        ELSE IF q % 2 = 0 THEN q ELSE q + 1

\* round((grade / max_grade) * 100, 2), in hundredths of a percent.
Percentage(grade, max_grade) == RoundDiv(grade * 10000, max_grade)

\* 24 hours, the unit of the lookback windows and of the cache lifetime.
Day == 86400

-----------------------------------------------------------------------------
(* Grade sync (grade_sync_service.py) *)

\* What Google Classroom answers to one sync of one course: whether the
\* coursework fetch succeeds, and one coursework item with one submission.
\* assignment is the Assignment row the coursework id maps to (NoId: none),
\* maxPoints the coursework's maxPoints (NoId: absent), userId the user the
\* submission's Google account belongs to, grade its assignedGrade or
\* draftGrade (NoId: none or 0, both falsy).
GoogleAnswers ==
    [ok : BOOLEAN, assignment : {NoId, 1}, maxPoints : {NoId, 50},
     userId : Users, grade : {NoId, 40}]

\* The answers with a graded submission for assignment 1.
GradedAnswers ==
    {g \in GoogleAnswers : g.assignment = 1 /\ g.maxPoints = NoId /\ g.grade # NoId}

\* The tables a grade sync writes.
GradeTables ==
    [assignments |-> assignments, student_assignments |-> student_assignments,
     grade_records |-> grade_records, synced |-> 0, errors |-> 0]

\* _upsert_grade_record keeping the percentage of the row it overwrites.
upsert_grade_record_kept_percentage(gr, sid, cid, aid, grade, max_grade, t) ==
    LET existing == IF aid # NoId
                    THEN {r \in gr : r.student_id = sid /\ r.assignment_id = aid}
                    ELSE {}
        pct == IF max_grade # 0 THEN Percentage(grade, max_grade) ELSE 0
    IN  IF existing # {}
        THEN LET e == CHOOSE r \in existing : \A o \in existing : r.id <= o.id
             IN  (gr \ {e}) \cup
                 {[e EXCEPT !.grade = grade, !.max_grade = max_grade,
                            !.recorded_at = t]}
        ELSE gr \cup {[id |-> Cardinality(gr) + 1, student_id |-> sid,
                       course_id |-> cid, assignment_id |-> aid,
                       grade |-> grade, max_grade |-> max_grade,
                       percentage |-> pct, recorded_at |-> t]}

\* _upsert_grade_record adding a row whether or not there is one.
upsert_grade_record_append(gr, sid, cid, aid, grade, max_grade, t) ==
    gr \cup {[id |-> Cardinality(gr) + 1, student_id |-> sid,
              course_id |-> cid, assignment_id |-> aid,
              grade |-> grade, max_grade |-> max_grade,
              percentage |-> IF max_grade # 0 THEN Percentage(grade, max_grade)
                             ELSE 0,
              recorded_at |-> t]}

\* _upsert_grade_record: overwrite the row of (student, assignment) when
\* there is one, else add a row.
upsert_grade_record(gr, sid, cid, aid, grade, max_grade, t) ==
    LET existing == IF aid # NoId
                    THEN {r \in gr : r.student_id = sid /\ r.assignment_id = aid}
                    ELSE {}
        pct == IF max_grade # 0 THEN Percentage(grade, max_grade) ELSE 0
    IN  IF existing # {}
        THEN LET e == CHOOSE r \in existing : \A o \in existing : r.id <= o.id
             IN  (gr \ {e}) \cup
                 {[e EXCEPT !.grade = grade, !.max_grade = max_grade,
                            !.percentage = pct, !.recorded_at = t]}
        ELSE gr \cup {[id |-> Cardinality(gr) + 1, student_id |-> sid,
                       course_id |-> cid, assignment_id |-> aid,
                       grade |-> grade, max_grade |-> max_grade,
                       percentage |-> pct, recorded_at |-> t]}

\* sync_grades_for_course on one answer: the tables after the sync, with
\* the synced and error counts added to those of db.
sync_grades_for_course(db, cid, g) ==
    LET a == g.assignment
        max_points == IF g.maxPoints # NoId THEN g.maxPoints
                      ELSE db.assignments[a].max_points
        new_assignments ==
            IF g.maxPoints # NoId /\ db.assignments[a].max_points # g.maxPoints
            THEN [db.assignments EXCEPT ![a].max_points = g.maxPoints]
            ELSE db.assignments
        \* _find_student_for_submission: an enrolled student of that user
        enrolled == {s \in DOMAIN students :
                        <<s, cid>> \in student_courses /\ students[s].user_id = g.userId}
        sid == CHOOSE s \in enrolled : TRUE
        old == {r \in db.student_assignments :
                   r.student_id = sid /\ r.assignment_id = a}
        sa == IF old # {} THEN CHOOSE r \in old : TRUE
              ELSE [student_id |-> sid, assignment_id |-> a, grade |-> NoId,
                    created_at |-> now]
        new_sa == IF g.grade # NoId THEN [sa EXCEPT !.grade = g.grade] ELSE sa
    IN  IF courses[cid].google_classroom_id = NoId THEN db
        ELSE IF ~g.ok THEN [db EXCEPT !.errors = @ + 1]
        ELSE IF a = NoId \/ a \notin DOMAIN db.assignments THEN db
        ELSE IF db.assignments[a].course_id # cid THEN db
        ELSE IF max_points = NoId THEN db
        ELSE IF enrolled = {} THEN [db EXCEPT !.assignments = new_assignments]
        ELSE [assignments |-> new_assignments,
              student_assignments |-> (db.student_assignments \ old) \cup {new_sa},
              grade_records |->
                  IF g.grade # NoId
                  THEN upsert_grade_record(db.grade_records, sid, cid, a,
                                           g.grade, max_points, now)
                  ELSE db.grade_records,
              synced |-> IF g.grade # NoId THEN db.synced + 1 ELSE db.synced,
              errors |-> db.errors]

\* sync_grades_for_student: sync every Google Classroom course the student
\* is enrolled in, one after the other.
RECURSIVE SyncCourses(_, _, _)
SyncCourses(db, cs, g) ==
    IF cs = {} THEN db
    ELSE LET c == CHOOSE x \in cs : \A y \in cs : x <= y
         IN  SyncCourses(sync_grades_for_course(db, c, g), cs \ {c}, g)

sync_grades_for_student(sid, g) ==
    SyncCourses(GradeTables,
                {c \in DOMAIN courses :
                    /\ <<sid, c>> \in student_courses
                    /\ courses[c].google_classroom_id # NoId},
                g)

-----------------------------------------------------------------------------
(* Grade seed (grade_seed_service.py) *)

\* The ids of a set in ascending order: the order the seed lists the
\* courses of a student and the assignments of a course in.
RECURSIVE Ascending(_)
Ascending(S) ==
    IF S = {} THEN <<>>
    ELSE LET m == CHOOSE x \in S : \A y \in S : x <= y
         IN  <<m>> \o Ascending(S \ {m})

\* The loop of seed_grades over the entries of the seed file, for the
\* student sid: the tables after it.
RECURSIVE SeedEntriesLoop(_, _, _)
SeedEntriesLoop(db, sid, entries) ==
    IF entries = <<>> THEN db
    ELSE LET entry == Head(entries)
             cs == Ascending({c \in DOMAIN courses : <<sid, c>> \in student_courses})
             course == cs[(entry.course_pattern % Len(cs)) + 1]
             course_assignments ==
                 Ascending({a \in DOMAIN db.assignments :
                               db.assignments[a].course_id = course})
             a == course_assignments[entry.assignment_index + 1]
             max_val == entry.max_grade
         IN  IF entry.assignment_index >= Len(course_assignments)
             THEN SeedEntriesLoop(db, sid, Tail(entries))
             ELSE SeedEntriesLoop(
                     [assignments |->
                          IF db.assignments[a].max_points = NoId
                          THEN [db.assignments EXCEPT ![a].max_points = max_val]
                          ELSE db.assignments,
                      student_assignments |->
                          db.student_assignments \cup
                          {[student_id |-> sid, assignment_id |-> a,
                            grade |-> entry.grade, created_at |-> now]},
                      grade_records |->
                          db.grade_records \cup
                          {[id |-> Cardinality(db.grade_records) + 1,
                            student_id |-> sid, course_id |-> course,
                            assignment_id |-> a, grade |-> entry.grade,
                            max_grade |-> max_val,
                            percentage |-> Percentage(entry.grade, max_val),
                            recorded_at |-> now - entry.days_ago * Day]},
                      synced |-> db.synced + 1, errors |-> db.errors],
                     sid, Tail(entries))

\* seed_grades with the seed file files holds one of: nothing when the
\* table has rows or no student is enrolled; a file with a max_grade of 0
\* raises before the commit.
seed_grades(files) ==
    LET enrolled == {s \in DOMAIN students : \E c \in DOMAIN courses :
                                               <<s, c>> \in student_courses}
    IN  IF grade_records # {} \/ enrolled = {}
        THEN UNCHANGED vars
        ELSE \E sid \in enrolled, entries \in files :
                LET db == SeedEntriesLoop(GradeTables, sid, entries)
                IN  IF \E i \in 1..Len(entries) : entries[i].max_grade = 0
                    THEN UNCHANGED vars
                    ELSE /\ assignments' = db.assignments
                         /\ student_assignments' = db.student_assignments
                         /\ grade_records' = db.grade_records
                         /\ UNCHANGED <<relations, boards, progress_reports, now, resp,
                                        weekly>>

-----------------------------------------------------------------------------
(* Analytics routes (routes/analytics.py) *)

NoResp ==
    [op |-> "none", user |-> NoId, target |-> NoId, status |-> 0,
     detail |-> "", aggregated |-> FALSE]

\* A response: target is the student_id parameter of the request, aggregated
\* tells whether the handler reached its aggregation or sync work.
Response(op, u, target, st, detail, agg) ==
    [op |-> op, user |-> u, target |-> target, status |-> st,
     detail |-> detail, aggregated |-> agg]

\* The common opening of every analytics route: _resolve_student_id, then
\* _get_student_or_403.  The outcome before any aggregation.
StudentGate(sidParam, u) ==
    LET sid == resolve_student_id(sidParam, u)
    IN  IF sid = NoId
        THEN [status |-> 400, detail |-> "student_id is required", sid |-> NoId]
        ELSE IF get_student_or_403(sid, u) = 404
        THEN [status |-> 404, detail |-> "Student not found", sid |-> sid]
        ELSE IF get_student_or_403(sid, u) = 403
        THEN [status |-> 403, detail |-> "Not authorized to view this student's grades",
              sid |-> sid]
        ELSE [status |-> 200, detail |-> "", sid |-> sid]

\* The response of a route that only reads: the gate's error, else 200.
ReadOnlyRoute(op, u, sidParam) ==
    LET gate == StudentGate(sidParam, u)
    IN  /\ resp' = IF gate.status # 200
                   THEN Response(op, u, sidParam, gate.status, gate.detail, FALSE)
                   ELSE Response(op, u, sidParam, 200, "", TRUE)
        /\ UNCHANGED <<relations, boards, stored, now, weekly>>

list_grades(u, sidParam) == ReadOnlyRoute("list_grades", u, sidParam)

get_dashboard(u, sidParam) == ReadOnlyRoute("get_dashboard", u, sidParam)

get_trends(u, sidParam) == ReadOnlyRoute("get_trends", u, sidParam)

get_course_trends(u, sidParam, cid) == ReadOnlyRoute("get_course_trends", u, sidParam)

\* get_subject_insights yields one insight per course the student has
\* grade records in.
SubjectInsightCourses(sid) ==
    {r.course_id : r \in {x \in grade_records : x.student_id = sid}}

get_subject_detail(u, sidParam, cid) ==
    LET gate == StudentGate(sidParam, u)
    IN  /\ resp' = IF gate.status # 200
                   THEN Response("get_subject_detail", u, sidParam, gate.status,
                                 gate.detail, FALSE)
                   ELSE IF cid \in SubjectInsightCourses(gate.sid)
                   THEN Response("get_subject_detail", u, sidParam, 200, "", TRUE)
                   ELSE Response("get_subject_detail", u, sidParam, 404,
                                 "No grade data found for this course", TRUE)
        /\ UNCHANGED <<relations, boards, stored, now, weekly>>

\* sync_grades running the sync before the student gate.
sync_grades_before_gate(u, sidParam, g) ==
    LET gate == StudentGate(sidParam, u)
        sid == resolve_student_id(sidParam, u)
        db == sync_grades_for_student(sid, g)
    IN  IF ~google_access_token[u]
        THEN /\ resp' = Response("sync_grades", u, sidParam, 400,
                                 "Google Classroom not connected", FALSE)
             /\ UNCHANGED <<relations, boards, stored, now, weekly>>
        ELSE IF sid = NoId \/ sid \notin DOMAIN students
        THEN /\ resp' = Response("sync_grades", u, sidParam, gate.status,
                                 gate.detail, FALSE)
             /\ UNCHANGED <<relations, boards, stored, now, weekly>>
        ELSE /\ resp' = Response("sync_grades", u, sidParam, gate.status,
                                 gate.detail, gate.status = 200)
             /\ assignments' = db.assignments
             /\ student_assignments' = db.student_assignments
             /\ grade_records' = db.grade_records
             /\ UNCHANGED <<relations, boards, progress_reports, now, weekly>>

sync_grades(u, sidParam, g) ==
    LET gate == StudentGate(sidParam, u)
        db == sync_grades_for_student(gate.sid, g)
    IN  IF ~google_access_token[u]
        THEN /\ resp' = Response("sync_grades", u, sidParam, 400,
                                 "Google Classroom not connected", FALSE)
             /\ UNCHANGED <<relations, boards, stored, now, weekly>>
        ELSE IF gate.status # 200
        THEN /\ resp' = Response("sync_grades", u, sidParam, gate.status,
                                 gate.detail, FALSE)
             /\ UNCHANGED <<relations, boards, stored, now, weekly>>
        ELSE /\ resp' = Response("sync_grades", u, sidParam, 200, "", TRUE)
             /\ assignments' = db.assignments
             /\ student_assignments' = db.student_assignments
             /\ grade_records' = db.grade_records
             /\ UNCHANGED <<relations, boards, progress_reports, now, weekly>>

\* The answer of list_grades: the response with the query parameters and
\* the body, the total and the page of grades.
GradeList(u, sidParam, cid, limit, offset, st, detail, total, grades) ==
    [op |-> "list_grades", user |-> u, target |-> sidParam, status |-> st,
     detail |-> detail, aggregated |-> st = 200, course_id |-> cid,
     limit |-> limit, offset |-> offset, total |-> total, grades |-> grades]

\* No request was made yet.
NoGradeList ==
    [op |-> "none", user |-> NoId, target |-> NoId, status |-> 0,
     detail |-> "", aggregated |-> FALSE, course_id |-> NoId,
     limit |-> 0, offset |-> 0, total |-> 0, grades |-> <<>>]

\* order_by(GradeRecord.recorded_at.desc()): the orders the database can
\* return the rows in, rows of the same recorded_at in any order.
NewestFirst(rows) ==
    {q \in [1..Cardinality(rows) -> rows] :
        /\ \A i, j \in DOMAIN q : i # j => q[i] # q[j]
        /\ \A i, j \in DOMAIN q : i < j => q[i].recorded_at >= q[j].recorded_at}

\* .offset(offset).limit(limit)
Page(q, limit, offset) ==
    SubSeq(q, offset + 1, IF offset + limit < Len(q) THEN offset + limit ELSE Len(q))

\* _grade_to_response recomputing the percentage from the grade and the
\* assignment's max_points.
grade_to_response_recomputed(gr) ==
    [id |-> gr.id, student_id |-> gr.student_id, course_id |-> gr.course_id,
     assignment_id |-> gr.assignment_id, grade |-> gr.grade,
     max_grade |-> gr.max_grade,
     percentage |-> Percentage(gr.grade, assignments[gr.assignment_id].max_points),
     recorded_at |-> gr.recorded_at]

\* _grade_to_response
grade_to_response(gr) ==
    [id |-> gr.id, student_id |-> gr.student_id, course_id |-> gr.course_id,
     assignment_id |-> gr.assignment_id, grade |-> gr.grade,
     max_grade |-> gr.max_grade, percentage |-> gr.percentage,
     recorded_at |-> gr.recorded_at]

\* list_grades with its query parameters and its body.
list_grades_page(u, sidParam, cid, limit, offset) ==
    LET gate == StudentGate(sidParam, u)
        rows == {r \in grade_records :
                    /\ r.student_id = gate.sid
                    /\ cid # NoId => r.course_id = cid}
    IN  /\ IF gate.status # 200
           THEN resp' = GradeList(u, sidParam, cid, limit, offset, gate.status,
                                  gate.detail, 0, <<>>)
           ELSE \E q \in NewestFirst(rows) :
                   resp' = GradeList(u, sidParam, cid, limit, offset, 200, "",
                                     Cardinality(rows),
                                     [i \in DOMAIN Page(q, limit, offset) |->
                                        grade_to_response(Page(q, limit, offset)[i])])
        /\ UNCHANGED <<relations, boards, stored, now, weekly>>

-----------------------------------------------------------------------------
(* Admin routes (routes/admin.py) *)

\* The user ids and the role names a request can carry; user 3 does not
\* exist and "guest" is no UserRole.
UserIds == {2, 3}
RoleNames == Roles \cup {"guest"}

\* User.get_roles_list: the roles column, or the active role alone where
\* the column is empty.
get_roles_list(u) == IF roles[u] = <<>> THEN <<role[u]>> ELSE roles[u]

\* [r for r in current_roles if r != target_role]
RECURSIVE Without(_, _)
Without(q, r) ==
    IF q = <<>> THEN <<>>
    ELSE IF Head(q) = r THEN Without(Tail(q), r)
    ELSE <<Head(q)>> \o Without(Tail(q), r)

\* The answer of an admin route.
AdminResponse(op, actor, uid, r, st) ==
    [op |-> op, user |-> actor, target |-> uid, role |-> r, status |-> st]

NoAdminResponse == AdminResponse("none", NoId, NoId, "", 0)

\* add_role_to_user
add_role_to_user(actor, uid, r) ==
    LET st == IF role[actor] # "admin" THEN 403
              ELSE IF r \notin Roles THEN 400
              ELSE IF uid \notin Users THEN 404
              ELSE IF HasRole(uid, r) THEN 400
              ELSE 200
    IN  /\ resp' = AdminResponse("add_role", actor, uid, r, st)
        /\ IF st = 200
           THEN /\ roles' = [roles EXCEPT ![uid] = Append(get_roles_list(uid), r)]
                /\ teachers' = IF r = "teacher" /\ TeacherOfUser(uid) = NoId
                               THEN Append(teachers, [user_id |-> uid])
                               ELSE teachers
                /\ students' = IF r = "student" /\ StudentOfUser(uid) = NoId
                               THEN Append(students, [user_id |-> uid])
                               ELSE students
           ELSE UNCHANGED <<roles, teachers, students>>
        /\ UNCHANGED <<boards, role, google_access_token, courses, student_courses,
                       parent_students, stored, now, weekly>>

\* remove_role_from_user switching the active role to the last remaining
\* role.
remove_role_from_user_last(actor, uid, r) ==
    LET st == IF role[actor] # "admin" THEN 403
              ELSE IF r \notin Roles THEN 400
              ELSE IF uid \notin Users THEN 404
              ELSE IF ~HasRole(uid, r) THEN 400
              ELSE IF Len(get_roles_list(uid)) <= 1 THEN 400
              ELSE 200
        current_roles == Without(get_roles_list(uid), r)
    IN  /\ resp' = AdminResponse("remove_role", actor, uid, r, st)
        /\ IF st = 200
           THEN /\ roles' = [roles EXCEPT ![uid] = current_roles]
                /\ role' = IF role[uid] = r
                           THEN [role EXCEPT ![uid] = current_roles[Len(current_roles)]]
                           ELSE role
           ELSE UNCHANGED <<roles, role>>
        /\ UNCHANGED <<boards, google_access_token, students, teachers, courses,
                       student_courses, parent_students, stored, now, weekly>>

\* remove_role_from_user refusing only a user without any role.
remove_role_from_user_to_none(actor, uid, r) ==
    LET st == IF role[actor] # "admin" THEN 403
              ELSE IF r \notin Roles THEN 400
              ELSE IF uid \notin Users THEN 404
              ELSE IF ~HasRole(uid, r) THEN 400
              ELSE IF Len(get_roles_list(uid)) < 1 THEN 400
              ELSE 200
        current_roles == Without(get_roles_list(uid), r)
    IN  /\ resp' = AdminResponse("remove_role", actor, uid, r, st)
        /\ IF st = 200
           THEN /\ roles' = [roles EXCEPT ![uid] = current_roles]
                /\ role' = IF role[uid] = r /\ current_roles # <<>>
                           THEN [role EXCEPT ![uid] = current_roles[1]]
                           ELSE role
           ELSE UNCHANGED <<roles, role>>
        /\ UNCHANGED <<boards, google_access_token, students, teachers, courses,
                       student_courses, parent_students, stored, now, weekly>>

\* remove_role_from_user
remove_role_from_user(actor, uid, r) ==
    LET st == IF role[actor] # "admin" THEN 403
              ELSE IF r \notin Roles THEN 400
              ELSE IF uid \notin Users THEN 404
              ELSE IF ~HasRole(uid, r) THEN 400
              ELSE IF Len(get_roles_list(uid)) <= 1 THEN 400
              ELSE 200
        current_roles == Without(get_roles_list(uid), r)
    IN  /\ resp' = AdminResponse("remove_role", actor, uid, r, st)
        /\ IF st = 200
           THEN /\ roles' = [roles EXCEPT ![uid] = current_roles]
                /\ role' = IF role[uid] = r
                           THEN [role EXCEPT ![uid] = current_roles[1]]
                           ELSE role
           ELSE UNCHANGED <<roles, role>>
        /\ UNCHANGED <<boards, google_access_token, students, teachers, courses,
                       student_courses, parent_students, stored, now, weekly>>

-----------------------------------------------------------------------------
(* Parent routes (routes/parent.py) *)

\* link_child for the email of an existing user su: the caller's active
\* role must be parent and su's active role student; the Student row of su
\* is created when missing; a second link of the same pair is refused.
link_child(p, su) ==
    LET found == StudentOfUser(su)
        sid == IF found # NoId THEN found ELSE Cardinality(DOMAIN students) + 1
        new_students ==
            IF found # NoId THEN students
            ELSE [s \in DOMAIN students \cup {sid} |->
                    IF s = sid THEN [user_id |-> su] ELSE students[s]]
    IN  IF role[p] # "parent"
        THEN /\ resp' = Response("link_child", p, NoId, 403,
                                 "Insufficient permissions", FALSE)
             /\ UNCHANGED <<relations, boards, stored, now, weekly>>
        ELSE IF role[su] # "student"
        THEN /\ resp' = Response("link_child", p, NoId, 400,
                                 "This email belongs to a non-student account", FALSE)
             /\ UNCHANGED <<relations, boards, stored, now, weekly>>
        ELSE IF <<p, sid>> \in parent_students
        THEN /\ resp' = Response("link_child", p, sid, 400,
                                 "This student is already linked to your account", FALSE)
             /\ UNCHANGED <<relations, boards, stored, now, weekly>>
        ELSE /\ resp' = Response("link_child", p, sid, 200, "", FALSE)
             /\ students' = new_students
             /\ parent_students' = parent_students \cup {<<p, sid>>}
             /\ UNCHANGED <<boards, role, roles, google_access_token, teachers, courses,
                            student_courses, stored, now, weekly>>

-----------------------------------------------------------------------------
(* Course routes (routes/courses.py) *)

get_course(u, cid) ==
    /\ resp' = IF cid \notin DOMAIN courses
               THEN Response("get_course", u, cid, 404, "Course not found", FALSE)
               ELSE IF ~can_access_course(u, cid)
               THEN Response("get_course", u, cid, 403, "Insufficient permissions", FALSE)
               ELSE Response("get_course", u, cid, 200, "", FALSE)
    /\ UNCHANGED <<relations, boards, stored, now, weekly>>

\* A course route that refuses, or answers without writing.
CourseAnswers(op, u, target, st, detail) ==
    /\ resp' = Response(op, u, target, st, detail, FALSE)
    /\ UNCHANGED <<relations, boards, stored, now, weekly>>

\* A course route that answers 200 and leaves the enrollments as sc.
Enrollments(op, u, target, sc) ==
    /\ resp' = Response(op, u, target, 200, "", FALSE)
    /\ student_courses' = sc
    /\ UNCHANGED <<role, roles, google_access_token, students, teachers, courses,
                   parent_students, boards, stored, now, weekly>>

\* enroll_in_course
enroll_in_course(u, cid) ==
    IF role[u] # "student"
    THEN CourseAnswers("enroll_in_course", u, cid, 403, "Insufficient permissions")
    ELSE IF cid \notin DOMAIN courses
    THEN CourseAnswers("enroll_in_course", u, cid, 404, "Course not found")
    ELSE IF courses[cid].is_private
    THEN CourseAnswers("enroll_in_course", u, cid, 403,
                       "This course is private and does not allow self-enrollment")
    ELSE IF StudentOfUser(u) = NoId
    THEN CourseAnswers("enroll_in_course", u, cid, 404, "Student profile not found")
    ELSE IF <<StudentOfUser(u), cid>> \in student_courses
    THEN CourseAnswers("enroll_in_course", u, cid, 400, "Already enrolled in this course")
    ELSE Enrollments("enroll_in_course", u, cid,
                     student_courses \cup {<<StudentOfUser(u), cid>>})

\* unenroll_from_course
unenroll_from_course(u, cid) ==
    IF role[u] # "student"
    THEN CourseAnswers("unenroll_from_course", u, cid, 403, "Insufficient permissions")
    ELSE IF cid \notin DOMAIN courses
    THEN CourseAnswers("unenroll_from_course", u, cid, 404, "Course not found")
    ELSE IF StudentOfUser(u) = NoId
    THEN CourseAnswers("unenroll_from_course", u, cid, 404, "Student profile not found")
    ELSE IF <<StudentOfUser(u), cid>> \notin student_courses
    THEN CourseAnswers("unenroll_from_course", u, cid, 400, "Not enrolled in this course")
    ELSE Enrollments("unenroll_from_course", u, cid,
                     student_courses \ {<<StudentOfUser(u), cid>>})

\* The most courses create_course makes.
MaxCourses == 1

\* The emails a request can carry: that of a user, or one of nobody (3).
Emails == Users \cup {3}

\* _resolve_teacher_by_email: 400 for a user who is no teacher or has no
\* teacher profile, else the teacher id; NoId and an invitation for an
\* email of nobody.
resolve_teacher_by_email(email) ==
    IF email \notin Users THEN [status |-> 200, teacher_id |-> NoId]
    ELSE IF ~HasRole(email, "teacher") \/ TeacherOfUser(email) = NoId
    THEN [status |-> 400, teacher_id |-> NoId]
    ELSE [status |-> 200, teacher_id |-> TeacherOfUser(email)]

\* A course route that answers 200 and leaves the courses as cs.
CourseWritten(op, u, target, cs) ==
    /\ resp' = Response(op, u, target, 200, "", FALSE)
    /\ courses' = cs
    /\ UNCHANGED <<role, roles, google_access_token, students, teachers,
                   student_courses, parent_students, boards, stored, now, weekly>>

\* create_course with teacher_email (NoId when none is sent); column_default
\* is the value the is_private column takes when the route sets none.
create_course(u, teacher_email, column_default) ==
    LET cid == Len(courses) + 1
        own == IF role[u] = "teacher" THEN TeacherOfUser(u) ELSE NoId
        is_private == IF role[u] = "teacher" THEN FALSE
                      ELSE IF role[u] \in {"parent", "student"} THEN TRUE
                      ELSE column_default
        found == IF teacher_email # NoId /\ own = NoId
                 THEN resolve_teacher_by_email(teacher_email)
                 ELSE [status |-> 200, teacher_id |-> NoId]
        course == IF found.teacher_id # NoId
                  THEN [created_by_user_id |-> u, is_private |-> FALSE,
                        teacher_id |-> found.teacher_id, google_classroom_id |-> NoId,
     is_default |-> FALSE]
                  ELSE [created_by_user_id |-> u, is_private |-> is_private,
                        teacher_id |-> own, google_classroom_id |-> NoId,
     is_default |-> FALSE]
    IN  /\ Len(courses) < MaxCourses
        /\ IF ~\E r \in {"teacher", "parent", "student", "admin"} : HasRole(u, r)
           THEN CourseAnswers("create_course", u, cid, 403, "Not allowed to create courses")
           ELSE IF found.status # 200
           THEN CourseAnswers("create_course", u, cid, 400, "not a teacher")
           ELSE CourseWritten("create_course", u, cid, Append(courses, course))

\* get_default_course: the default course of the user, made when there is
\* none: private, without a teacher.
get_default_course(u) ==
    IF \E c \in DOMAIN courses : courses[c].created_by_user_id = u /\ courses[c].is_default
    THEN CourseAnswers("get_default_course", u,
                       CHOOSE c \in DOMAIN courses :
                          courses[c].created_by_user_id = u /\ courses[c].is_default,
                       200, "")
    ELSE /\ Len(courses) < MaxCourses
         /\ CourseWritten("get_default_course", u, Len(courses) + 1,
                          Append(courses,
                                 [created_by_user_id |-> u, is_private |-> TRUE,
                                  teacher_id |-> NoId, google_classroom_id |-> NoId,
                                  is_default |-> TRUE]))

\* list_courses without the filter on the courses a student is enrolled in.
list_courses_no_enrolled(u) ==
    IF role[u] = "admin" THEN DOMAIN courses
    ELSE {c \in DOMAIN courses :
            \/ ~courses[c].is_private
            \/ courses[c].created_by_user_id = u
            \/ /\ role[u] = "parent"
               /\ \E s \in DOMAIN students :
                     <<u, s>> \in parent_students /\ <<s, c>> \in student_courses}

\* list_courses: the courses the listing shows to user u.
list_courses(u) ==
    IF role[u] = "admin" THEN DOMAIN courses
    ELSE {c \in DOMAIN courses :
            \/ ~courses[c].is_private
            \/ courses[c].created_by_user_id = u
            \/ /\ role[u] = "student"
               /\ StudentOfUser(u) # NoId
               /\ <<StudentOfUser(u), c>> \in student_courses
            \/ /\ role[u] = "parent"
               /\ \E s \in DOMAIN students :
                     <<u, s>> \in parent_students /\ <<s, c>> \in student_courses}

\* A request of GET /courses/ and its answer.
list_courses_call(u) ==
    /\ resp' = [op |-> "list_courses", user |-> u, target |-> NoId, status |-> 200,
                detail |-> "", listing |-> list_courses(u)]
    /\ UNCHANGED <<relations, boards, stored, now, weekly>>

\* update_course with teacher_email: NotSent, 0 for the empty string, or an
\* email.
update_course(u, cid, teacher_email) ==
    IF cid \notin DOMAIN courses
    THEN CourseAnswers("update_course", u, cid, 404, "Course not found")
    ELSE IF courses[cid].created_by_user_id # u /\ ~HasRole(u, "admin")
    THEN CourseAnswers("update_course", u, cid, 403,
                       "Only the course creator or an admin can update this course")
    ELSE IF teacher_email = NotSent
    THEN CourseWritten("update_course", u, cid, courses)
    ELSE IF teacher_email = 0
    THEN CourseWritten("update_course", u, cid, [courses EXCEPT ![cid].teacher_id = NoId])
    ELSE IF resolve_teacher_by_email(teacher_email).status # 200
    THEN CourseAnswers("update_course", u, cid, 400, "not a teacher")
    ELSE IF resolve_teacher_by_email(teacher_email).teacher_id = NoId
    THEN CourseWritten("update_course", u, cid, courses)
    ELSE CourseWritten("update_course", u, cid,
                       [courses EXCEPT
                          ![cid].teacher_id = resolve_teacher_by_email(teacher_email).teacher_id,
                          ![cid].is_private = FALSE])

\* _require_course_manager: an admin, the creator, or the course's teacher.
require_course_manager(u, cid) ==
    \/ HasRole(u, "admin")
    \/ courses[cid].created_by_user_id = u
    \/ /\ HasRole(u, "teacher")
       /\ TeacherOfUser(u) # NoId
       /\ courses[cid].teacher_id = TeacherOfUser(u)

\* add_student_to_course
add_student_to_course(u, cid, email) ==
    IF cid \notin DOMAIN courses
    THEN CourseAnswers("add_student_to_course", u, cid, 404, "Course not found")
    ELSE IF ~require_course_manager(u, cid)
    THEN CourseAnswers("add_student_to_course", u, cid, 403,
                       "You do not have permission to manage this course roster")
    ELSE IF email \notin Users
    THEN CourseAnswers("add_student_to_course", u, cid, 200, "Invitation sent")
    ELSE IF ~HasRole(email, "student")
    THEN CourseAnswers("add_student_to_course", u, cid, 400, "not a student account")
    ELSE IF StudentOfUser(email) = NoId
    THEN CourseAnswers("add_student_to_course", u, cid, 400, "Student profile not found")
    ELSE IF <<StudentOfUser(email), cid>> \in student_courses
    THEN CourseAnswers("add_student_to_course", u, cid, 400,
                       "Student is already enrolled in this course")
    ELSE Enrollments("add_student_to_course", u, cid,
                     student_courses \cup {<<StudentOfUser(email), cid>>})

\* remove_student_from_course
remove_student_from_course(u, cid, sid) ==
    IF cid \notin DOMAIN courses
    THEN CourseAnswers("remove_student_from_course", u, cid, 404, "Course not found")
    ELSE IF ~require_course_manager(u, cid)
    THEN CourseAnswers("remove_student_from_course", u, cid, 403,
                       "You do not have permission to manage this course roster")
    ELSE IF <<sid, cid>> \notin student_courses
    THEN CourseAnswers("remove_student_from_course", u, cid, 404,
                       "Student is not enrolled in this course")
    ELSE Enrollments("remove_student_from_course", u, cid, student_courses \ {<<sid, cid>>})

-----------------------------------------------------------------------------
(* Assignment routes (routes/assignments.py) *)

\* The most assignments create_assignment makes.
MaxCreated == 2

\* create_assignment of an assignment worth max_points, without a due date.
create_assignment(u, cid, max_points) ==
    IF ~can_access_course(u, cid)
    THEN CourseAnswers("create_assignment", u, cid, 403, "No access to this course")
    ELSE IF /\ ~HasRole(u, "admin")
            /\ courses[cid].created_by_user_id # u
            /\ ~(/\ role[u] = "teacher"
                 /\ TeacherOfUser(u) # NoId
                 /\ courses[cid].teacher_id = TeacherOfUser(u))
    THEN CourseAnswers("create_assignment", u, cid, 403,
                       "Only the course teacher or creator can add assignments")
    ELSE /\ Len(assignments) < MaxCreated
         /\ resp' = Response("create_assignment", u, cid, 200, "", FALSE)
         /\ assignments' = Append(assignments,
                                  [course_id |-> cid, max_points |-> max_points,
                                   due_date |-> NoId])
         /\ UNCHANGED <<relations, boards, student_assignments, grade_records,
                        progress_reports, now, weekly>>

-----------------------------------------------------------------------------
(* Analytics service (services/analytics_service.py) *)

\* The unrounded percentages are exact fractions <<numerator, denominator>>
\* with a positive denominator.
RECURSIVE Gcd(_, _)
Gcd(a, b) == IF b = 0 THEN a ELSE Gcd(b, a % b)

\* The fraction in lowest terms.
Lowest(a) ==
    LET g == Gcd(IF a[1] < 0 THEN -a[1] ELSE a[1], a[2])
    IN  <<a[1] \div g, a[2] \div g>>

RatAdd(a, b) == Lowest(<<a[1] * b[2] + b[1] * a[2], a[2] * b[2]>>)

RatLess(a, b) == a[1] * b[2] < b[1] * a[2]

\* sum(percentages) of a list.
RECURSIVE SumRat(_)
SumRat(q) == IF q = <<>> THEN <<0, 1>> ELSE RatAdd(Head(q), SumRat(Tail(q)))

\* round(total / count, 2), in hundredths.
RoundRat(total, count) == RoundDiv(total[1] * 100, total[2] * count)

\* _base_graded_query without the two max_points filters.
base_graded_query_any_max(sid, cid) ==
    {r \in student_assignments :
        /\ r.student_id = sid
        /\ r.grade # NoId
        /\ r.assignment_id \in DOMAIN assignments
        /\ assignments[r.assignment_id].course_id \in DOMAIN courses
        /\ cid # NoId => assignments[r.assignment_id].course_id = cid}

\* _base_graded_query: the student's rows with a grade whose assignment has
\* positive max_points, of one course when course_id is given.
base_graded_query(sid, cid) ==
    {r \in student_assignments :
        /\ r.student_id = sid
        /\ r.grade # NoId
        /\ r.assignment_id \in DOMAIN assignments
        /\ assignments[r.assignment_id].course_id \in DOMAIN courses
        /\ assignments[r.assignment_id].max_points # NoId
        /\ assignments[r.assignment_id].max_points > 0
        /\ cid # NoId => assignments[r.assignment_id].course_id = cid}

\* _total_assignments_query: the assignments of the courses the student is
\* enrolled in.
total_assignments_query(sid) ==
    Cardinality({a \in DOMAIN assignments : <<sid, assignments[a].course_id>> \in student_courses})

\* (sa.grade / assignment.max_points) * 100
RowPct(r) == <<r.grade * 100, assignments[r.assignment_id].max_points>>

\* order_by(Assignment.due_date.asc().nullslast(), StudentAssignment.created_at.asc());
\* rows with equal keys are taken in assignment order.
ChronoBefore(r1, r2) ==
    LET d1 == assignments[r1.assignment_id].due_date
        d2 == assignments[r2.assignment_id].due_date
    IN  IF d1 # d2
        THEN IF d1 = NoId THEN FALSE ELSE IF d2 = NoId THEN TRUE ELSE d1 < d2
        ELSE IF r1.created_at # r2.created_at THEN r1.created_at < r2.created_at
        ELSE r1.assignment_id <= r2.assignment_id

RECURSIVE Chronological(_)
Chronological(rows) ==
    IF rows = {} THEN <<>>
    ELSE LET first == CHOOSE r \in rows : \A o \in rows : ChronoBefore(r, o)
         IN  <<first>> \o Chronological(rows \ {first})

\* determine_trend with >= where the code has >.
determine_trend_inclusive(percentages) ==
    LET n == Len(percentages)
        third == IF n \div 3 > 1 THEN n \div 3 ELSE 1
        first == SumRat(SubSeq(percentages, 1, third))
        last == SumRat(SubSeq(percentages, n - third + 1, n))
    IN  IF n < 3 THEN "stable"
        ELSE IF ~RatLess(last, RatAdd(first, <<3 * third, 1>>)) THEN "improving"
        ELSE IF ~RatLess(RatAdd(first, <<-3 * third, 1>>), last) THEN "declining"
        ELSE "stable"

\* determine_trend classifying lists of two.
determine_trend_two_points(percentages) ==
    LET n == Len(percentages)
        third == IF n \div 3 > 1 THEN n \div 3 ELSE 1
        first == SumRat(SubSeq(percentages, 1, third))
        last == SumRat(SubSeq(percentages, n - third + 1, n))
    IN  IF n < 2 THEN "stable"
        ELSE IF RatLess(RatAdd(first, <<3 * third, 1>>), last) THEN "improving"
        ELSE IF RatLess(last, RatAdd(first, <<-3 * third, 1>>)) THEN "declining"
        ELSE "stable"

\* determine_trend comparing the first value with the last third.
determine_trend_first_value(percentages) ==
    LET n == Len(percentages)
        third == IF n \div 3 > 1 THEN n \div 3 ELSE 1
        first == SumRat(SubSeq(percentages, 1, 1))
        last == SumRat(SubSeq(percentages, n - third + 1, n))
    IN  IF n < 3 THEN "stable"
        ELSE IF RatLess(RatAdd(first, <<3 * third, 1>>), last) THEN "improving"
        ELSE IF RatLess(last, RatAdd(first, <<-3 * third, 1>>)) THEN "declining"
        ELSE "stable"

\* determine_trend: the means of the first and the last third, 3 points
\* apart or not.
determine_trend(percentages) ==
    LET n == Len(percentages)
        third == IF n \div 3 > 1 THEN n \div 3 ELSE 1
        first == SumRat(SubSeq(percentages, 1, third))
        last == SumRat(SubSeq(percentages, n - third + 1, n))
    IN  IF n < 3 THEN "stable"
        ELSE IF RatLess(RatAdd(first, <<3 * third, 1>>), last) THEN "improving"
        ELSE IF RatLess(last, RatAdd(first, <<-3 * third, 1>>)) THEN "declining"
        ELSE "stable"

\* compute_summary raises ZeroDivisionError: a division whose divisor no
\* test guards, sa.grade / assignment.max_points, meets a zero.
compute_summary_raises(sid) ==
    \E r \in base_graded_query(sid, NoId) : assignments[r.assignment_id].max_points = 0

\* The list of RowPct over a sequence of rows.
RowPcts(q) == [i \in 1..Len(q) |-> RowPct(q[i])]

\* compute_summary with the per-course completion rate taken over all the
\* assignments of the student's courses.
compute_summary_enrolled_total(sid) ==
    LET rows == base_graded_query(sid, NoId)
        graded_courses == {assignments[r.assignment_id].course_id : r \in rows}
        course_rows(c) == {r \in rows : assignments[r.assignment_id].course_id = c}
        total_in_course(c) ==
            Cardinality({a \in DOMAIN assignments : assignments[a].course_id = c})
        total_assignments == total_assignments_query(sid)
        total_graded == Cardinality(rows)
    IN  IF rows = {}
        THEN [overall_average |-> 0, total_graded |-> 0,
              total_assignments |-> total_assignments, completion_rate |-> 0,
              course_averages |-> <<>>, trend |-> "stable"]
        ELSE [overall_average |->
                  RoundRat(SumRat(RowPcts(Chronological(rows))), total_graded),
              total_graded |-> total_graded,
              total_assignments |-> total_assignments,
              completion_rate |->
                  IF total_assignments # 0
                  THEN RoundDiv(total_graded * 10000, total_assignments) ELSE 0,
              course_averages |->
                  [c \in graded_courses |->
                     [course_id |-> c,
                      average_percentage |->
                          RoundRat(SumRat(RowPcts(Chronological(course_rows(c)))),
                                   Cardinality(course_rows(c))),
                      graded_count |-> Cardinality(course_rows(c)),
                      total_count |-> total_in_course(c),
                      completion_rate |->
                          IF total_assignments # 0
                          THEN RoundDiv(Cardinality(course_rows(c)) * 10000,
                                        total_assignments)
                          ELSE 0]],
              trend |-> determine_trend(RowPcts(Chronological(rows)))]

\* compute_summary
compute_summary(sid) ==
    LET rows == base_graded_query(sid, NoId)
        graded_courses == {assignments[r.assignment_id].course_id : r \in rows}
        course_rows(c) == {r \in rows : assignments[r.assignment_id].course_id = c}
        total_in_course(c) ==
            Cardinality({a \in DOMAIN assignments : assignments[a].course_id = c})
        total_assignments == total_assignments_query(sid)
        total_graded == Cardinality(rows)
    IN  IF rows = {}
        THEN [overall_average |-> 0, total_graded |-> 0,
              total_assignments |-> total_assignments, completion_rate |-> 0,
              course_averages |-> <<>>, trend |-> "stable"]
        ELSE [overall_average |->
                  RoundRat(SumRat(RowPcts(Chronological(rows))), total_graded),
              total_graded |-> total_graded,
              total_assignments |-> total_assignments,
              completion_rate |->
                  IF total_assignments # 0
                  THEN RoundDiv(total_graded * 10000, total_assignments) ELSE 0,
              course_averages |->
                  [c \in graded_courses |->
                     [course_id |-> c,
                      average_percentage |->
                          RoundRat(SumRat(RowPcts(Chronological(course_rows(c)))),
                                   Cardinality(course_rows(c))),
                      graded_count |-> Cardinality(course_rows(c)),
                      total_count |-> total_in_course(c),
                      completion_rate |->
                          IF total_in_course(c) # 0
                          THEN RoundDiv(Cardinality(course_rows(c)) * 10000,
                                        total_in_course(c))
                          ELSE 0]],
              trend |-> determine_trend(RowPcts(Chronological(rows)))]

\* compute_trend_points: the rows due or created since the cutoff, in
\* chronological order, with rounded percentages, and their trend.
compute_trend_points(sid, cid, days) ==
    LET cutoff == now - days * Day
        rows == {r \in base_graded_query(sid, cid) :
                    \/ /\ assignments[r.assignment_id].due_date # NoId
                       /\ assignments[r.assignment_id].due_date >= cutoff
                    \/ r.created_at >= cutoff}
        q == Chronological(rows)
        pct(r) == Percentage(r.grade, assignments[r.assignment_id].max_points)
    IN  [points |-> [i \in 1..Len(q) |->
                       [date |-> IF assignments[q[i].assignment_id].due_date # NoId
                                 THEN assignments[q[i].assignment_id].due_date
                                 ELSE q[i].created_at,
                        percentage |-> pct(q[i]),
                        assignment_id |-> q[i].assignment_id]],
         trend |-> determine_trend([i \in 1..Len(q) |-> <<pct(q[i]), 100>>])]

-----------------------------------------------------------------------------
(* Weekly report cache *)

\* A payload that was not computed.
NoData ==
    [overall_average |-> 0, total_graded |-> 0, completion_rate |-> 0,
     trend |-> "", course_summaries |-> <<>>, grades_this_week |-> 0]

\* The requests that can run at the same time.
Procs == {1, 2}

\* A request that is not running.
Idle == [pc |-> "idle", sid |-> NoId, start |-> 0, end |-> 0,
         existing |-> NoId, data |-> NoData]

\* No weekly report was returned yet.
NoReport ==
    [id |-> NoId, student_id |-> NoId, report_type |-> "", period_start |-> 0,
     period_end |-> 0, data |-> NoData, generated_at |-> 0, outcome |-> "",
     at |-> 0]

\* _current_week_bounds with the week found from the stored clock reading t.
current_week_bounds(t) ==
    LET weekday == (t \div Day) % 7
        monday == t - weekday * Day
        start == monday - (monday % Day)
    IN  [start |-> start, end |-> start + 6 * Day + 23 * 3600 + 59 * 60 + 59]

\* The payload of a fresh report; json.dumps and json.loads keep it as it
\* is, numbers, strings and lists of objects only.
report_data(sid) ==
    LET summary == compute_summary(sid)
        tp == compute_trend_points(sid, NoId, 7)
    IN  [overall_average |-> summary.overall_average,
         total_graded |-> summary.total_graded,
         completion_rate |-> summary.completion_rate,
         trend |-> tp.trend,
         course_summaries |-> summary.course_averages,
         grades_this_week |-> Len(tp.points)]

\* The query without its period_start filter.
existing_reports_any_week(sid, start) ==
    {r \in progress_reports : r.student_id = sid /\ r.report_type = "weekly"}

\* The rows the query for the current week's report of a student matches.
existing_reports(sid, start) ==
    {r \in progress_reports :
        r.student_id = sid /\ r.report_type = "weekly" /\ r.period_start = start}

\* .first(): any matching row, NoId when there is none.
FirstOf(rows) == IF rows = {} THEN {NoId} ELSE {r.id : r \in rows}

ReportRow(id) == CHOOSE r \in progress_reports : r.id = id

\* The cached row is served when it is younger than 12 hours.
is_fresh_half_day(row, t) == t - row.generated_at < Day \div 2

\* The cached row is served when it is 24 hours old or younger.
is_fresh_inclusive(row, t) == t - row.generated_at <= Day

\* age < timedelta(hours=24)
is_fresh(row, t) == t - row.generated_at < Day

\* The dict the function returns, with the branch that produced it
\* ("cached", "updated" or "inserted") and the time of the request.
ReportResult(row, outcome, t) ==
    [id |-> row.id, student_id |-> row.student_id, report_type |-> row.report_type,
     period_start |-> row.period_start, period_end |-> row.period_end,
     data |-> row.data, generated_at |-> row.generated_at,
     outcome |-> outcome, at |-> t]

\* The row written for a request: the existing row with new data,
\* generated_at and period_end, or a new row.
written_row(existing, sid, bounds, data, t) ==
    IF existing # NoId
    THEN [ReportRow(existing) EXCEPT !.data = data, !.generated_at = t,
                                     !.period_end = bounds.end]
    ELSE [id |-> Cardinality(progress_reports) + 1, student_id |-> sid,
          report_type |-> "weekly", period_start |-> bounds.start,
          period_end |-> bounds.end, data |-> data, generated_at |-> t]

\* get_or_create_weekly_report stamping the cached row on every hit.
get_or_create_weekly_report_touch(sid) ==
    LET bounds == current_week_bounds(now)
    IN  \E existing \in FirstOf(existing_reports(sid, bounds.start)) :
           LET data == IF existing # NoId /\ is_fresh(ReportRow(existing), now)
                       THEN ReportRow(existing).data ELSE report_data(sid)
               row == written_row(existing, sid, bounds, data, now)
           IN  /\ progress_reports' =
                     {r \in progress_reports : r.id # row.id} \cup {row}
               /\ report' = [report EXCEPT ![sid] =
                     ReportResult(row,
                                  IF existing = NoId THEN "inserted"
                                  ELSE IF is_fresh(ReportRow(existing), now)
                                  THEN "cached" ELSE "updated", now)]
               /\ UNCHANGED <<relations, boards, assignments, student_assignments,
                              grade_records, now, resp, requests>>

\* get_or_create_weekly_report, run from its query to its return without
\* another request in between.
get_or_create_weekly_report(sid) ==
    LET bounds == current_week_bounds(now)
    IN  \E existing \in FirstOf(existing_reports(sid, bounds.start)) :
           IF existing # NoId /\ is_fresh(ReportRow(existing), now)
           THEN /\ report' = [report EXCEPT ![sid] =
                                 ReportResult(ReportRow(existing), "cached", now)]
                /\ UNCHANGED <<relations, boards, stored, now, resp, requests>>
           ELSE LET row == written_row(existing, sid, bounds, report_data(sid), now)
                IN  /\ progress_reports' =
                          {r \in progress_reports : r.id # row.id} \cup {row}
                    /\ report' = [report EXCEPT ![sid] =
                          ReportResult(row, IF existing = NoId THEN "inserted"
                                            ELSE "updated", now)]
                    /\ UNCHANGED <<relations, boards, assignments, student_assignments,
                                   grade_records, now, resp, requests>>

\* The same function as the three steps that other requests can come
\* between: the query and the freshness test,
weekly_begin(p, sid) ==
    LET bounds == current_week_bounds(now)
    IN  /\ requests[p].pc = "idle"
        /\ \E existing \in FirstOf(existing_reports(sid, bounds.start)) :
              IF existing # NoId /\ is_fresh(ReportRow(existing), now)
              THEN /\ report' = [report EXCEPT ![sid] =
                                    ReportResult(ReportRow(existing), "cached", now)]
                   /\ UNCHANGED <<relations, boards, stored, now, resp, requests>>
              ELSE /\ requests' = [requests EXCEPT ![p] =
                                      [pc |-> "compute", sid |-> sid,
                                       start |-> bounds.start, end |-> bounds.end,
                                       existing |-> existing, data |-> NoData]]
                   /\ UNCHANGED <<relations, boards, stored, now, resp, report>>

\* the computation of the payload,
weekly_compute(p) ==
    /\ requests[p].pc = "compute"
    /\ requests' = [requests EXCEPT ![p].pc = "commit",
                                    ![p].data = report_data(requests[p].sid)]
    /\ UNCHANGED <<relations, boards, stored, now, resp, report>>

\* weekly_commit adding a row whether or not the query found one.
weekly_commit_append(p) ==
    LET r == requests[p]
        row == written_row(NoId, r.sid, [start |-> r.start, end |-> r.end],
                           r.data, now)
    IN  /\ r.pc = "commit"
        /\ progress_reports' = progress_reports \cup {row}
        /\ report' = [report EXCEPT ![r.sid] = ReportResult(row, "inserted", now)]
        /\ requests' = [requests EXCEPT ![p] = Idle]
        /\ UNCHANGED <<relations, boards, assignments, student_assignments, grade_records,
                       now, resp>>

\* and the write, the commit and the return.
weekly_commit(p) ==
    LET r == requests[p]
        row == written_row(r.existing, r.sid, [start |-> r.start, end |-> r.end],
                           r.data, now)
    IN  /\ r.pc = "commit"
        /\ progress_reports' = {x \in progress_reports : x.id # row.id} \cup {row}
        /\ report' = [report EXCEPT ![r.sid] =
              ReportResult(row, IF r.existing = NoId THEN "inserted" ELSE "updated",
                           now)]
        /\ requests' = [requests EXCEPT ![p] = Idle]
        /\ UNCHANGED <<relations, boards, assignments, student_assignments, grade_records,
                       now, resp>>

\* The clock advances by d seconds.
Tick(d, max) ==
    /\ now + d <= max
    /\ now' = now + d
    /\ UNCHANGED <<relations, boards, stored, resp, weekly>>

-----------------------------------------------------------------------------
(* Task routes (routes/tasks.py) and task service (domains/tasks)          *)

\* The most tasks there are at a time.
MaxTasks == 1

\* The task ids a request can name; the last never has a row.
TaskIds == 1..(MaxTasks + 1)

\* The fields of a TaskUpdate that are modelled; NotSent is a field left out
\* of the request, 0 as assigned_to_user_id unassigns.
TaskUpdates ==
    [is_completed : {NotSent, 0, 1}, title : {NotSent, 2},
     assigned_to_user_id : {NotSent, 0, 2}]

TaskExists(tid) == \E t \in tasks : t.id = tid

\* db.query(Task).filter(Task.id == task_id).first()
TaskRow(tid) == CHOOSE t \in tasks : t.id = tid

\* The id of the next row: one more than the largest id in the table.
NextTaskId ==
    IF tasks = {} THEN 1
    ELSE 1 + (CHOOSE i \in {t.id : t \in tasks} : \A t \in tasks : t.id <= i)

\* The answer of a task route; listing holds the ids list_tasks returns.
TaskAnswer(op, u, tid, st, detail, listing) ==
    [op |-> op, user |-> u, target |-> tid, status |-> st, detail |-> detail,
     listing |-> listing]

\* TaskService.validate_assignment_relationship: 200 where it returns, else
\* the status it raises.
validate_assignment_relationship(u, a) ==
    IF a \notin Users THEN 404
    ELSE IF role[u] = "parent"
    THEN IF \E st \in DOMAIN students :
               <<u, st>> \in parent_students /\ students[st].user_id = a
         THEN 200 ELSE 403
    ELSE IF role[u] = "teacher"
    THEN IF TeacherOfUser(u) = NoId THEN 403
         ELSE IF StudentOfUser(a) = NoId THEN 403
         ELSE IF \E c \in DOMAIN courses :
                    /\ courses[c].teacher_id = TeacherOfUser(u)
                    /\ <<StudentOfUser(a), c>> \in student_courses
         THEN 200 ELSE 403
    ELSE IF role[u] = "student"
    THEN IF StudentOfUser(u) = NoId THEN 403
         ELSE IF <<a, StudentOfUser(u)>> \in parent_students THEN 200
         ELSE 403
    ELSE 403

\* TaskService.can_view_task
can_view_task(t, u) ==
    \/ t.created_by_user_id = u
    \/ t.assigned_to_user_id = u
    \/ /\ role[u] = "parent"
       /\ \E st \in DOMAIN students :
             /\ <<u, st>> \in parent_students
             /\ students[st].user_id \in {t.assigned_to_user_id, t.created_by_user_id}

\* TaskService.toggle_completion without the auto-archive.
toggle_completion_no_archive(t, c) ==
    [t EXCEPT !.is_completed = c,
              !.completed_at = IF c THEN now ELSE NoId]

\* TaskService.toggle_completion
toggle_completion(t, c) ==
    [t EXCEPT !.is_completed = c,
              !.completed_at = IF c THEN now ELSE NoId,
              !.archived_at = IF c THEN now ELSE NoId]

\* list_tasks, without its optional filters on assignee, completion,
\* priority and course.
list_tasks(u, include_archived) ==
    /\ resp' = TaskAnswer("list_tasks", u, NoId, 200, "",
                  {t.id : t \in {x \in tasks :
                      /\ x.created_by_user_id = u \/ x.assigned_to_user_id = u
                      /\ ~include_archived => x.archived_at = NoId}})
    /\ UNCHANGED <<relations, stored, now, weekly, boards>>

\* get_task answering 404 where the caller may not view the task.
get_task_not_found(u, tid) ==
    /\ resp' = IF ~TaskExists(tid)
               THEN TaskAnswer("get_task", u, tid, 404, "Task not found", {})
               ELSE IF ~can_view_task(TaskRow(tid), u)
               THEN TaskAnswer("get_task", u, tid, 404, "Task not found", {})
               ELSE TaskAnswer("get_task", u, tid, 200, "", {})
    /\ UNCHANGED <<relations, stored, now, weekly, boards>>

\* get_task
get_task(u, tid) ==
    /\ resp' = IF ~TaskExists(tid)
               THEN TaskAnswer("get_task", u, tid, 404, "Task not found", {})
               ELSE IF ~can_view_task(TaskRow(tid), u)
               THEN TaskAnswer("get_task", u, tid, 403,
                               "Not authorized to view this task", {})
               ELSE TaskAnswer("get_task", u, tid, 200, "", {})
    /\ UNCHANGED <<relations, stored, now, weekly, boards>>

\* create_task, personal or assigned to user a
create_task(u, a) ==
    LET st == IF a # NoId /\ validate_assignment_relationship(u, a) # 200
              THEN validate_assignment_relationship(u, a)
              ELSE 201
    IN  /\ Cardinality(tasks) < MaxTasks
        /\ NextTaskId <= MaxTasks
        /\ resp' = TaskAnswer("create_task", u, IF st = 201 THEN NextTaskId ELSE NoId,
                              st, "", {})
        /\ tasks' = IF st # 201 THEN tasks
                    ELSE tasks \cup
                         {[id |-> NextTaskId, created_by_user_id |-> u,
                           assigned_to_user_id |-> a, title |-> 1,
                           is_completed |-> FALSE, completed_at |-> NoId,
                           archived_at |-> NoId]}
        /\ UNCHANGED <<relations, stored, now, weekly, faq_questions, faq_answers>>

\* The creator's branch of update_task: the row after the fields of the
\* request are applied, in the order of the code.
TaskUpdated(t, request) ==
    LET t1 == IF request.assigned_to_user_id = NotSent THEN t
              ELSE [t EXCEPT !.assigned_to_user_id = request.assigned_to_user_id]
        t2 == IF request.title = NotSent THEN t1 ELSE [t1 EXCEPT !.title = request.title]
    IN  IF request.is_completed = NotSent THEN t2
        ELSE toggle_completion(t2, request.is_completed = 1)

\* update_task
update_task(u, tid, request) ==
    LET t == TaskRow(tid)
        is_creator == t.created_by_user_id = u
        is_assignee == t.assigned_to_user_id = u
        refused == IF request.assigned_to_user_id \in {NotSent, 0} THEN 200
                   ELSE validate_assignment_relationship(u, request.assigned_to_user_id)
    IN  IF ~TaskExists(tid)
        THEN /\ resp' = TaskAnswer("update_task", u, tid, 404, "Task not found", {})
             /\ UNCHANGED <<relations, stored, now, weekly, boards>>
        ELSE IF ~is_creator /\ ~is_assignee
        THEN /\ resp' = TaskAnswer("update_task", u, tid, 404, "Task not found", {})
             /\ UNCHANGED <<relations, stored, now, weekly, boards>>
        ELSE IF ~is_creator /\ request.is_completed = NotSent
        THEN /\ resp' = TaskAnswer("update_task", u, tid, 403,
                                   "Only the task creator can edit task details", {})
             /\ UNCHANGED <<relations, stored, now, weekly, boards>>
        ELSE IF ~is_creator
        THEN /\ resp' = TaskAnswer("update_task", u, tid, 200, "", {})
             /\ tasks' = (tasks \ {t}) \cup
                            {toggle_completion(t, request.is_completed = 1)}
             /\ UNCHANGED <<relations, stored, now, weekly, faq_questions, faq_answers>>
        ELSE IF refused # 200
        THEN /\ resp' = TaskAnswer("update_task", u, tid, refused, "", {})
             /\ UNCHANGED <<relations, stored, now, weekly, boards>>
        ELSE /\ resp' = TaskAnswer("update_task", u, tid, 200, "", {})
             /\ tasks' = (tasks \ {t}) \cup {TaskUpdated(t, request)}
             /\ UNCHANGED <<relations, stored, now, weekly, faq_questions, faq_answers>>

\* db.query(Task).filter(Task.id == task_id, Task.created_by_user_id == current_user.id)
OwnTask(u, tid) == \E t \in tasks : t.id = tid /\ t.created_by_user_id = u

\* delete_task: the archival
delete_task(u, tid) ==
    IF ~OwnTask(u, tid)
    THEN /\ resp' = TaskAnswer("delete_task", u, tid, 404, "Task not found", {})
         /\ UNCHANGED <<relations, stored, now, weekly, boards>>
    ELSE /\ resp' = TaskAnswer("delete_task", u, tid, 204, "", {})
         /\ tasks' = (tasks \ {TaskRow(tid)}) \cup
                        {[TaskRow(tid) EXCEPT !.archived_at = now]}
         /\ UNCHANGED <<relations, stored, now, weekly, faq_questions, faq_answers>>

\* restore_task keeping the completion of the task.
restore_task_keeps_completion(u, tid) ==
    IF ~OwnTask(u, tid)
    THEN /\ resp' = TaskAnswer("restore_task", u, tid, 404, "Task not found", {})
         /\ UNCHANGED <<relations, stored, now, weekly, boards>>
    ELSE IF TaskRow(tid).archived_at = NoId
    THEN /\ resp' = TaskAnswer("restore_task", u, tid, 400, "Task is not archived", {})
         /\ UNCHANGED <<relations, stored, now, weekly, boards>>
    ELSE /\ resp' = TaskAnswer("restore_task", u, tid, 200, "", {})
         /\ tasks' = (tasks \ {TaskRow(tid)}) \cup
                        {[TaskRow(tid) EXCEPT !.archived_at = NoId]}
         /\ UNCHANGED <<relations, stored, now, weekly, faq_questions, faq_answers>>

\* restore_task with TaskService.restore_task
restore_task(u, tid) ==
    IF ~OwnTask(u, tid)
    THEN /\ resp' = TaskAnswer("restore_task", u, tid, 404, "Task not found", {})
         /\ UNCHANGED <<relations, stored, now, weekly, boards>>
    ELSE IF TaskRow(tid).archived_at = NoId
    THEN /\ resp' = TaskAnswer("restore_task", u, tid, 400, "Task is not archived", {})
         /\ UNCHANGED <<relations, stored, now, weekly, boards>>
    ELSE /\ resp' = TaskAnswer("restore_task", u, tid, 200, "", {})
         /\ tasks' = (tasks \ {TaskRow(tid)}) \cup
                        {[TaskRow(tid) EXCEPT !.archived_at = NoId,
                                              !.is_completed = FALSE,
                                              !.completed_at = NoId]}
         /\ UNCHANGED <<relations, stored, now, weekly, faq_questions, faq_answers>>

\* permanent_delete_task
permanent_delete_task(u, tid) ==
    IF ~OwnTask(u, tid)
    THEN /\ resp' = TaskAnswer("permanent_delete_task", u, tid, 404,
                               "Task not found", {})
         /\ UNCHANGED <<relations, stored, now, weekly, boards>>
    ELSE IF TaskRow(tid).archived_at = NoId
    THEN /\ resp' = TaskAnswer("permanent_delete_task", u, tid, 400,
                               "Task must be archived before permanent deletion", {})
         /\ UNCHANGED <<relations, stored, now, weekly, boards>>
    ELSE /\ resp' = TaskAnswer("permanent_delete_task", u, tid, 204, "", {})
         /\ tasks' = tasks \ {TaskRow(tid)}
         /\ UNCHANGED <<relations, stored, now, weekly, faq_questions, faq_answers>>

-----------------------------------------------------------------------------
(* FAQ routes (routes/faq.py) *)

\* The most answers there are at a time.
MaxAnswers == 2

\* The answer ids a request can name; those above the largest id in the
\* table have no row.
AnswerIds == 1..MaxAnswers

\* The question ids a request can name.
QuestionIds == {1, 2, 3}

\* db.query(FAQAnswer).filter(FAQAnswer.id == answer_id).first()
AnswerRow(aid) == CHOOSE a \in faq_answers : a.id = aid

AnswerExists(aid) == \E a \in faq_answers : a.id = aid

\* The id of the next answer: one more than the largest id in the table.
NextAnswerId ==
    IF faq_answers = {} THEN 1
    ELSE 1 + (CHOOSE i \in {a.id : a \in faq_answers} :
                 \A a \in faq_answers : a.id <= i)

\* The answer of a FAQ route.
FaqResponse(op, u, target, st) ==
    [op |-> op, user |-> u, target |-> target, status |-> st]

\* A FAQ route that refuses, or answers without writing.
FaqOnlyAnswers(op, u, target, st) ==
    /\ resp' = FaqResponse(op, u, target, st)
    /\ UNCHANGED <<relations, stored, now, weekly, boards>>

\* The open question of a newly approved answer becomes answered.
QuestionsAfterApproval(qid) ==
    IF qid \in DOMAIN faq_questions /\ faq_questions[qid].status = "open"
    THEN [faq_questions EXCEPT ![qid].status = "answered"]
    ELSE faq_questions

\* submit_answer
submit_answer(u, qid, content) ==
    LET is_admin == HasRole(u, "admin")
    IN  IF qid \notin DOMAIN faq_questions \/ faq_questions[qid].archived
        THEN FaqOnlyAnswers("submit_answer", u, qid, 404)
        ELSE /\ Cardinality(faq_answers) < MaxAnswers
             /\ NextAnswerId <= MaxAnswers
             /\ resp' = FaqResponse("submit_answer", u, NextAnswerId, 201)
             /\ faq_answers' = faq_answers \cup
                   {[id |-> NextAnswerId, question_id |-> qid, content |-> content,
                     created_by_user_id |-> u,
                     status |-> IF is_admin THEN "approved" ELSE "pending",
                     is_official |-> FALSE]}
             /\ faq_questions' = IF is_admin THEN QuestionsAfterApproval(qid)
                                 ELSE faq_questions
             /\ UNCHANGED <<relations, stored, now, weekly, tasks>>

\* update_answer
update_answer(u, aid, content) ==
    IF ~AnswerExists(aid) THEN FaqOnlyAnswers("update_answer", u, aid, 404)
    ELSE IF AnswerRow(aid).created_by_user_id # u
    THEN FaqOnlyAnswers("update_answer", u, aid, 403)
    ELSE IF AnswerRow(aid).status # "pending"
    THEN FaqOnlyAnswers("update_answer", u, aid, 400)
    ELSE /\ resp' = FaqResponse("update_answer", u, aid, 200)
         /\ faq_answers' = (faq_answers \ {AnswerRow(aid)}) \cup
                              {[AnswerRow(aid) EXCEPT !.content = content]}
         /\ UNCHANGED <<relations, stored, now, weekly, tasks, faq_questions>>

\* approve_answer and reject_answer: the review of a pending answer, verdict
\* being "approved" or "rejected"
Review(op, u, aid, verdict) ==
    IF role[u] # "admin" THEN FaqOnlyAnswers(op, u, aid, 403)
    ELSE IF ~AnswerExists(aid) THEN FaqOnlyAnswers(op, u, aid, 404)
    ELSE IF AnswerRow(aid).status # "pending" THEN FaqOnlyAnswers(op, u, aid, 400)
    ELSE /\ resp' = FaqResponse(op, u, aid, 200)
         /\ faq_answers' = (faq_answers \ {AnswerRow(aid)}) \cup
                              {[AnswerRow(aid) EXCEPT !.status = verdict]}
         /\ faq_questions' = IF verdict = "approved"
                             THEN QuestionsAfterApproval(AnswerRow(aid).question_id)
                             ELSE faq_questions
         /\ UNCHANGED <<relations, stored, now, weekly, tasks>>

\* approve_answer approving whatever was not approved yet.
approve_answer_any(u, aid) ==
    IF role[u] # "admin" THEN FaqOnlyAnswers("approve_answer", u, aid, 403)
    ELSE IF ~AnswerExists(aid) THEN FaqOnlyAnswers("approve_answer", u, aid, 404)
    ELSE IF AnswerRow(aid).status = "approved"
    THEN FaqOnlyAnswers("approve_answer", u, aid, 400)
    ELSE /\ resp' = FaqResponse("approve_answer", u, aid, 200)
         /\ faq_answers' = (faq_answers \ {AnswerRow(aid)}) \cup
                              {[AnswerRow(aid) EXCEPT !.status = "approved"]}
         /\ faq_questions' = QuestionsAfterApproval(AnswerRow(aid).question_id)
         /\ UNCHANGED <<relations, stored, now, weekly, tasks>>

approve_answer(u, aid) == Review("approve_answer", u, aid, "approved")

reject_answer(u, aid) == Review("reject_answer", u, aid, "rejected")

\* mark_official leaving the other official answers of the question.
mark_official_keeps_others(u, aid) ==
    IF role[u] # "admin" THEN FaqOnlyAnswers("mark_official", u, aid, 403)
    ELSE IF ~AnswerExists(aid) THEN FaqOnlyAnswers("mark_official", u, aid, 404)
    ELSE IF AnswerRow(aid).status # "approved"
    THEN FaqOnlyAnswers("mark_official", u, aid, 400)
    ELSE /\ resp' = FaqResponse("mark_official", u, aid, 200)
         /\ faq_answers' =
               {IF a.id = aid THEN [a EXCEPT !.is_official = ~a.is_official] ELSE a :
                  a \in faq_answers}
         /\ UNCHANGED <<relations, stored, now, weekly, tasks, faq_questions>>

\* mark_official
mark_official(u, aid) ==
    IF role[u] # "admin" THEN FaqOnlyAnswers("mark_official", u, aid, 403)
    ELSE IF ~AnswerExists(aid) THEN FaqOnlyAnswers("mark_official", u, aid, 404)
    ELSE IF AnswerRow(aid).status # "approved"
    THEN FaqOnlyAnswers("mark_official", u, aid, 400)
    ELSE /\ resp' = FaqResponse("mark_official", u, aid, 200)
         /\ faq_answers' =
               IF AnswerRow(aid).is_official
               THEN {IF a.id = aid THEN [a EXCEPT !.is_official = FALSE] ELSE a :
                       a \in faq_answers}
               ELSE {IF a.id = aid THEN [a EXCEPT !.is_official = TRUE]
                     ELSE IF a.question_id = AnswerRow(aid).question_id
                     THEN [a EXCEPT !.is_official = FALSE]
                     ELSE a : a \in faq_answers}
         /\ UNCHANGED <<relations, stored, now, weekly, tasks, faq_questions>>

\* admin_delete_answer
admin_delete_answer(u, aid) ==
    IF role[u] # "admin" THEN FaqOnlyAnswers("admin_delete_answer", u, aid, 403)
    ELSE IF ~AnswerExists(aid) THEN FaqOnlyAnswers("admin_delete_answer", u, aid, 404)
    ELSE /\ resp' = FaqResponse("admin_delete_answer", u, aid, 204)
         /\ faq_answers' = faq_answers \ {AnswerRow(aid)}
         /\ UNCHANGED <<relations, stored, now, weekly, tasks, faq_questions>>

-----------------------------------------------------------------------------
(* Initial states *)

\* No tasks, no FAQ questions and no FAQ answers.
NoBoards ==
    /\ tasks = {}
    /\ faq_questions = <<>>
    /\ faq_answers = {}

\* The roles columns: the active role is held and the column lists at most
\* max roles; only MultiRoleUsers start with more than one role.
InitRoles(max) ==
    /\ role \in [Users -> Roles]
    /\ roles \in [Users -> UNION {HeldRoleSeqs(r, max) : r \in Roles}]
    /\ \A u \in Users :
          roles[u] \in HeldRoleSeqs(role[u], IF u \in MultiRoleUsers THEN max ELSE 1)

\* User 2 has student profile 1; user 1 may have student profile 2.
\* User 2 has teacher profile 1; user 1 may have teacher profile 2.
InitProfiles ==
    /\ students \in {[s \in 1..n |-> [user_id |-> 3 - s]] : n \in 1..2}
    /\ teachers \in {[t \in 1..n |-> [user_id |-> 3 - t]] : n \in 1..2}

\* Any enrollments, and any parent links to another user's profile.
InitEdges ==
    /\ student_courses \in SUBSET ((DOMAIN students) \X (DOMAIN courses))
    /\ parent_students \in
          SUBSET {e \in Users \X (DOMAIN students) : students[e[2]].user_id # e[1]}

\* One assignment, in course 1, worth 100 points, without a due date.
InitGrades(t) ==
    /\ assignments = [a \in {1} |-> [course_id |-> 1, max_points |-> 100,
                                     due_date |-> NoId]]
    /\ student_assignments = {}
    /\ grade_records = {}
    /\ progress_reports = {}
    /\ now = t
    /\ resp = NoResp
    /\ report = [s \in StudentIds |-> NoReport]
    /\ requests = [p \in Procs |-> Idle]
    /\ NoBoards

\* A private course created by user 2, with teacher t.
PrivateCourse(t, gc) ==
    [created_by_user_id |-> 2, is_private |-> TRUE, teacher_id |-> t,
     google_classroom_id |-> gc,
     is_default |-> FALSE]

-----------------------------------------------------------------------------
(* The student gate: two private courses with any teachers, any role       *)
(* overlay of user 1.                                                      *)

InitGate ==
    /\ InitRoles(MaxHeldRoles)
    /\ role[2] \in {"student", "parent"}
    /\ google_access_token = [u \in Users |-> FALSE]
    /\ InitProfiles
    /\ courses \in {[c \in CourseIds |-> PrivateCourse(t[c], NoId)] :
                       t \in [CourseIds -> {NoId} \cup DOMAIN teachers]}
    /\ InitEdges
    /\ InitGrades(0)

NextGate ==
    \/ \E u \in Users, s \in {NoId} \cup StudentIds : list_grades(u, s)
    \/ \E p \in Users, su \in Users : link_child(p, su)

SpecGate == InitGate /\ [][NextGate]_vars

-----------------------------------------------------------------------------
(* The analytics routes: single-role users, one private Google Classroom   *)
(* course.                                                                 *)

InitAnalytics ==
    /\ InitRoles(1)
    /\ role[2] = "student"
    /\ google_access_token \in [Users -> BOOLEAN]
    /\ InitProfiles
    /\ DOMAIN teachers = {1}
    /\ courses \in {[c \in {1} |-> PrivateCourse(t, 1)] : t \in {NoId, 1}}
    /\ InitEdges
    /\ InitGrades(0)

NextAnalytics ==
    \/ \E u \in Users, s \in {NoId} \cup StudentIds : list_grades(u, s)
    \/ \E u \in Users, s \in {NoId} \cup StudentIds : get_dashboard(u, s)
    \/ \E u \in Users, s \in {NoId} \cup StudentIds : get_trends(u, s)
    \/ \E u \in Users, s \in {NoId} \cup StudentIds, c \in CourseIds :
          get_course_trends(u, s, c)
    \/ \E u \in Users, s \in {NoId} \cup StudentIds, c \in CourseIds :
          get_subject_detail(u, s, c)
    \/ \E u \in Users, s \in {NoId} \cup StudentIds, g \in GradedAnswers :
          sync_grades(u, s, g)

SpecAnalytics == InitAnalytics /\ [][NextAnalytics]_vars

-----------------------------------------------------------------------------
(* The course gate: one course with any creator, privacy and teacher; id 2 *)
(* names no course.                                                        *)

InitCourses ==
    /\ InitRoles(MaxHeldRoles)
    /\ role[2] \in {"student", "parent"}
    /\ google_access_token = [u \in Users |-> FALSE]
    /\ InitProfiles
    /\ courses \in {[c \in {1} |-> [created_by_user_id |-> cb, is_private |-> p,
                                    teacher_id |-> t, google_classroom_id |-> NoId,
     is_default |-> FALSE]] :
                       cb \in Users, p \in BOOLEAN, t \in {NoId} \cup DOMAIN teachers}
    /\ InitEdges
    /\ InitGrades(0)

NextCourses ==
    \E u \in Users, c \in CourseIds : get_course(u, c)

SpecCourses == InitCourses /\ [][NextCourses]_vars

-----------------------------------------------------------------------------
(* The weekly report, one request at a time: an admin with a Google token, *)
(* two students enrolled in one Google Classroom course with one           *)
(* assignment, from a Sunday 00:00:00 on.                                  *)

\* The last day the clock reaches.
MaxDays == 8

\* The steps of the clock.
TickSteps == {Day - 1, Day}

\* The answers that grade student 1's assignment, out of 50.
ReportAnswers ==
    {g \in GoogleAnswers : /\ g.ok /\ g.assignment = 1 /\ g.userId = 2
                           /\ g.grade # NoId /\ g.maxPoints # NoId}

InitReport ==
    /\ role = [u \in Users |-> IF u = 1 THEN "admin" ELSE "student"]
    /\ roles = [u \in Users |-> IF u = 1 THEN <<"admin">> ELSE <<"student">>]
    /\ google_access_token = [u \in Users |-> u = 1]
    /\ students = [s \in {1, 2} |-> [user_id |-> 3 - s]]
    /\ teachers = <<>>
    /\ courses = [c \in {1} |-> PrivateCourse(NoId, 1)]
    /\ student_courses = {<<1, 1>>, <<2, 1>>}
    /\ parent_students = {}
    /\ InitGrades(6 * Day)

NextReport ==
    \/ \E d \in TickSteps : Tick(d, MaxDays * Day)
    \/ \E s \in DOMAIN students : get_or_create_weekly_report(s)
    \/ \E g \in ReportAnswers : sync_grades(1, 1, g)

SpecReport == InitReport /\ [][NextReport]_vars

-----------------------------------------------------------------------------
(* The weekly report with two requests at a time, for the same data, over  *)
(* the Sunday and the Monday.                                              *)

\* The last day the clock reaches when requests overlap.
MaxDaysOverlap == 7

NextOverlap ==
    \/ \E d \in TickSteps : Tick(d, MaxDaysOverlap * Day)
    \/ \E p \in Procs, s \in {1} : weekly_begin(p, s)
    \/ \E p \in Procs : weekly_compute(p)
    \/ \E p \in Procs : weekly_commit(p)
    \/ \E g \in ReportAnswers : sync_grades(1, 1, g)

SpecOverlap == InitReport /\ [][NextOverlap]_vars

-----------------------------------------------------------------------------
(* Two requests at a time on a stale row: the row of student 1 for the     *)
(* week was generated on the Saturday 00:00:00, before any grade, and it   *)
(* is Sunday 00:00:00.                                                     *)

InitStale ==
    /\ role = [u \in Users |-> IF u = 1 THEN "admin" ELSE "student"]
    /\ roles = [u \in Users |-> IF u = 1 THEN <<"admin">> ELSE <<"student">>]
    /\ google_access_token = [u \in Users |-> u = 1]
    /\ students = [s \in {1, 2} |-> [user_id |-> 3 - s]]
    /\ teachers = <<>>
    /\ courses = [c \in {1} |-> PrivateCourse(NoId, 1)]
    /\ student_courses = {<<1, 1>>, <<2, 1>>}
    /\ parent_students = {}
    /\ assignments = [a \in {1} |-> [course_id |-> 1, max_points |-> 100,
                                     due_date |-> NoId]]
    /\ student_assignments = {}
    /\ grade_records = {}
    /\ now = 6 * Day
    /\ progress_reports =
          {[id |-> 1, student_id |-> 1, report_type |-> "weekly",
            period_start |-> 0, period_end |-> 7 * Day - 1,
            data |-> report_data(1), generated_at |-> 5 * Day]}
    /\ resp = NoResp
    /\ report = [s \in StudentIds |-> NoReport]
    /\ requests = [p \in Procs |-> Idle]
    /\ NoBoards

SpecStale == InitStale /\ [][NextOverlap]_vars

-----------------------------------------------------------------------------
(* determine_trend on its own: a call with any list of percentages, then   *)
(* its return.                                                             *)

\* The longest list of percentages passed.
MaxLen == 6

\* The percentages of the lists: whole numbers 1, 2, 3, 4 and 8 apart.
TrendValues == {<<v, 1>> : v \in {50, 51, 52, 53, 54, 58}}

TrendLists == UNION {[1..n -> TrendValues] : n \in 0..MaxLen}

\* The call is made: resp holds the argument.
InitTrend ==
    /\ role = [u \in Users |-> "student"]
    /\ roles = [u \in Users |-> <<"student">>]
    /\ google_access_token = [u \in Users |-> FALSE]
    /\ students = <<>>
    /\ teachers = <<>>
    /\ courses = <<>>
    /\ student_courses = {}
    /\ parent_students = {}
    /\ assignments = <<>>
    /\ student_assignments = {}
    /\ grade_records = {}
    /\ progress_reports = {}
    /\ now = 0
    /\ \E q \in TrendLists : resp = [op |-> "call", percentages |-> q, trend |-> ""]
    /\ report = [s \in StudentIds |-> NoReport]
    /\ requests = [p \in Procs |-> Idle]
    /\ NoBoards

\* The call returns.
determine_trend_return ==
    /\ resp.op = "call"
    /\ resp' = [resp EXCEPT !.op = "determine_trend",
                            !.trend = determine_trend(resp.percentages)]
    /\ UNCHANGED <<relations, boards, stored, now, weekly>>

SpecTrend == InitTrend /\ [][determine_trend_return]_vars

-----------------------------------------------------------------------------
(* compute_summary on its own: student 1 with any assignments in two       *)
(* courses, any enrollment and any rows, graded or not; student 2 with     *)
(* nothing.                                                                *)

\* The most assignments there are.
MaxAssignments == 3

\* The summary of a call that raised.
NoSummary ==
    [overall_average |-> 0, total_graded |-> 0, total_assignments |-> 0,
     completion_rate |-> 0, course_averages |-> <<>>, trend |-> ""]

InitSummary ==
    /\ role = [u \in Users |-> "student"]
    /\ roles = [u \in Users |-> <<"student">>]
    /\ google_access_token = [u \in Users |-> FALSE]
    /\ students = [s \in {1, 2} |-> [user_id |-> 3 - s]]
    /\ teachers = <<>>
    /\ courses = [c \in CourseIds |-> PrivateCourse(NoId, NoId)]
    /\ student_courses \in {{}, {<<1, 1>>}, {<<1, 1>>, <<1, 2>>}}
    /\ parent_students = {}
    /\ assignments \in
          UNION {[1..n -> [course_id : CourseIds, max_points : {0, 100},
                           due_date : {NoId}]] : n \in 0..MaxAssignments}
    /\ \E graded \in [DOMAIN assignments -> {"none", "pending", "graded"}] :
          student_assignments =
             {[student_id |-> 1, assignment_id |-> a,
               grade |-> IF graded[a] = "graded" THEN 40 ELSE NoId,
               created_at |-> 0] : a \in {x \in DOMAIN assignments : graded[x] # "none"}}
    /\ grade_records = {}
    /\ progress_reports = {}
    /\ now = 0
    /\ resp = [op |-> "none", student |-> NoId, raised |-> FALSE,
               summary |-> NoSummary]
    /\ report = [s \in StudentIds |-> NoReport]
    /\ requests = [p \in Procs |-> Idle]
    /\ NoBoards

\* A call of compute_summary and its outcome.
compute_summary_call(sid) ==
    /\ resp' = IF compute_summary_raises(sid)
               THEN [op |-> "compute_summary", student |-> sid, raised |-> TRUE,
                     summary |-> NoSummary]
               ELSE [op |-> "compute_summary", student |-> sid, raised |-> FALSE,
                     summary |-> compute_summary(sid)]
    /\ UNCHANGED <<relations, boards, stored, now, weekly>>

NextSummary == \E s \in DOMAIN students : compute_summary_call(s)

SpecSummary == InitSummary /\ [][NextSummary]_vars

-----------------------------------------------------------------------------
(* The grade records: an admin with a Google token, two students enrolled  *)
(* in one Google Classroom course with two assignments, the second without *)
(* points; the seed on the empty table, and syncs that grade the first.    *)

\* The last day the clock reaches.
MaxGradeDays == 1

\* The most entries the seed file has.
MaxSeedEntries == 2

\* What Google Classroom answers to one sync, as in GoogleAnswers, with
\* two grades and 60 points: 66.67 and 75 percent.
SyncAnswers ==
    [ok : {TRUE}, assignment : {1}, maxPoints : {NoId, 60},
     userId : Users, grade : {NoId, 40, 45}]

\* The entries of a seed file: the first or the second assignment of the
\* course, graded the day before.
SeedEntries ==
    [course_pattern : {0}, assignment_index : {0, 1}, grade : {40},
     max_grade : {0, 60}, days_ago : {1}]

SeedFiles == UNION {[1..n -> SeedEntries] : n \in 1..MaxSeedEntries}

InitRecords ==
    /\ role = [u \in Users |-> IF u = 1 THEN "admin" ELSE "student"]
    /\ roles = [u \in Users |-> IF u = 1 THEN <<"admin">> ELSE <<"student">>]
    /\ google_access_token = [u \in Users |-> u = 1]
    /\ students = [s \in {1, 2} |-> [user_id |-> 3 - s]]
    /\ teachers = <<>>
    /\ courses = [c \in {1} |-> PrivateCourse(NoId, 1)]
    /\ student_courses = {<<1, 1>>, <<2, 1>>}
    /\ parent_students = {}
    /\ assignments = [a \in {1, 2} |->
                        [course_id |-> 1,
                         max_points |-> IF a = 1 THEN 100 ELSE NoId,
                         due_date |-> NoId]]
    /\ student_assignments = {}
    /\ grade_records = {}
    /\ progress_reports = {}
    /\ now = 0
    /\ resp = NoResp
    /\ report = [s \in StudentIds |-> NoReport]
    /\ requests = [p \in Procs |-> Idle]
    /\ NoBoards

NextRecords ==
    \/ Tick(Day, MaxGradeDays * Day)
    \/ seed_grades(SeedFiles)
    \/ \E g \in SyncAnswers : sync_grades(1, 1, g)

SpecRecords == InitRecords /\ [][NextRecords]_vars

-----------------------------------------------------------------------------
(* The grade syncs alone, from the empty table: student 1 graded on either *)
(* assignment, student 2 on the first.                                     *)

\* The last day the clock reaches.
MaxSyncDays == 1

\* What Google Classroom answers to one sync: a graded submission of
\* user 2 for either assignment or of user 1 for the first.
PairAnswers ==
    {g \in [ok : {TRUE}, assignment : {1, 2}, maxPoints : {NoId, 60},
            userId : Users, grade : {40, 45}] :
        g.userId = 1 => g.assignment = 1}

NextSync ==
    \/ Tick(Day, MaxSyncDays * Day)
    \/ \E g \in PairAnswers : sync_grades(1, 1, g)

SpecSync == InitRecords /\ [][NextSync]_vars

-----------------------------------------------------------------------------
(* The grade list: the rows syncs have left for student 1 on three         *)
(* assignments of two courses, recorded on two days, the points of the     *)
(* assignments changed since or not, and one request in flight.            *)

\* The largest limit and the largest offset of a request.
MaxLimit == 2

\* The rows a student can have: for each assignment none or one, the rows
\* numbered in the order of the assignments from id first on.
RowsOf(sid, first, as) ==
    {[id |-> first + Cardinality({b \in DOMAIN as : b < a}),
      student_id |-> sid, course_id |-> assignments[a].course_id,
      assignment_id |-> a, grade |-> 40, max_grade |-> as[a].max_grade,
      percentage |-> Percentage(40, as[a].max_grade),
      recorded_at |-> as[a].recorded_at] : a \in DOMAIN as}

InitList ==
    /\ role = [u \in Users |-> IF u = 1 THEN "admin" ELSE "student"]
    /\ roles = [u \in Users |-> IF u = 1 THEN <<"admin">> ELSE <<"student">>]
    /\ google_access_token = [u \in Users |-> u = 1]
    /\ students = [s \in {1} |-> [user_id |-> 2]]
    /\ teachers = <<>>
    /\ courses = [c \in CourseIds |-> PrivateCourse(NoId, c)]
    /\ student_courses = {<<1, 1>>, <<1, 2>>}
    /\ parent_students = {}
    /\ assignments = [a \in {1, 2, 3} |->
                        [course_id |-> IF a = 2 THEN 2 ELSE 1, max_points |-> 100,
                         due_date |-> NoId]]
    /\ student_assignments = {}
    /\ \E A \in SUBSET {1, 2, 3} :
          \E as \in [A -> [max_grade : {60, 100}, recorded_at : {0, Day}]] :
             grade_records = RowsOf(1, 1, as)
    /\ progress_reports = {}
    /\ now = Day
    /\ \E u \in Users, s \in {NoId} \cup StudentIds, c \in {NoId} \cup CourseIds,
          limit \in 0..MaxLimit, offset \in 0..MaxLimit :
          resp = [NoGradeList EXCEPT !.op = "request", !.user = u, !.target = s,
                                     !.course_id = c, !.limit = limit,
                                     !.offset = offset]
    /\ report = [s \in StudentIds |-> NoReport]
    /\ requests = [p \in Procs |-> Idle]
    /\ NoBoards

\* The request in flight is answered.
list_grades_answer ==
    /\ resp.op = "request"
    /\ list_grades_page(resp.user, resp.target, resp.course_id, resp.limit,
                        resp.offset)

SpecList == InitList /\ [][list_grades_answer]_vars

-----------------------------------------------------------------------------
(* compute_trend_points on its own, on the sixth day: student 1 with a     *)
(* graded row or none on each assignment, the assignment without a due     *)
(* date or due before, inside or after the lookback window, the row        *)
(* created before or inside it.                                            *)

\* The number of assignments.
MaxTrendAssignments == 3

\* The lookback windows asked for, in days.
TrendDays == {2, 7}

\* No trend was computed yet.
NoTrendPoints ==
    [op |-> "none", student |-> NoId, course_id |-> NoId, days |-> 0,
     points |-> <<>>, trend |-> ""]

InitTrendPoints ==
    /\ role = [u \in Users |-> "student"]
    /\ roles = [u \in Users |-> <<"student">>]
    /\ google_access_token = [u \in Users |-> FALSE]
    /\ students = [s \in {1} |-> [user_id |-> 1]]
    /\ teachers = <<>>
    /\ courses = [c \in CourseIds |-> PrivateCourse(NoId, NoId)]
    /\ student_courses = {<<1, 1>>, <<1, 2>>}
    /\ parent_students = {}
    /\ \E A \in SUBSET (1..MaxTrendAssignments) :
          \E due \in [A -> {NoId, Day, 5 * Day, 8 * Day}], created \in [A -> {Day, 5 * Day}] :
             /\ assignments =
                   [a \in 1..MaxTrendAssignments |->
                      [course_id |-> IF a % 2 = 0 THEN 2 ELSE 1, max_points |-> 100,
                       due_date |-> IF a \in A THEN due[a] ELSE NoId]]
             /\ student_assignments =
                   {[student_id |-> 1, assignment_id |-> a, grade |-> 46 + 4 * a,
                     created_at |-> created[a]] : a \in A}
    /\ grade_records = {}
    /\ progress_reports = {}
    /\ now = 6 * Day
    /\ resp = NoTrendPoints
    /\ report = [s \in StudentIds |-> NoReport]
    /\ requests = [p \in Procs |-> Idle]
    /\ NoBoards

\* A call of compute_trend_points and what it returns.
compute_trend_points_call(sid, cid, days) ==
    /\ resp' = [op |-> "compute_trend_points", student |-> sid, course_id |-> cid,
                days |-> days,
                points |-> compute_trend_points(sid, cid, days).points,
                trend |-> compute_trend_points(sid, cid, days).trend]
    /\ UNCHANGED <<relations, boards, stored, now, weekly>>

NextTrendPoints ==
    \E s \in DOMAIN students, c \in {NoId} \cup CourseIds, days \in TrendDays :
       compute_trend_points_call(s, c, days)

SpecTrendPoints == InitTrendPoints /\ [][NextTrendPoints]_vars

-----------------------------------------------------------------------------
(* The admin role routes: user 1 an admin, user 2 anyone, each with a      *)
(* roles column that lists the active role or was never filled; no         *)
(* profiles yet.                                                           *)

InitAdmin ==
    /\ role \in [Users -> Roles]
    /\ role[1] = "admin"
    /\ roles \in [Users -> {<<>>} \cup UNION {HeldRoleSeqs(r, MaxHeldRoles) : r \in Roles}]
    /\ \A u \in Users :
          \/ roles[u] = <<>>
          \/ roles[u] \in HeldRoleSeqs(role[u], IF u \in MultiRoleUsers
                                                THEN MaxHeldRoles ELSE 1)
    /\ google_access_token = [u \in Users |-> FALSE]
    /\ students = <<>>
    /\ teachers = <<>>
    /\ courses = <<>>
    /\ student_courses = {}
    /\ parent_students = {}
    /\ assignments = <<>>
    /\ student_assignments = {}
    /\ grade_records = {}
    /\ progress_reports = {}
    /\ now = 0
    /\ resp = NoAdminResponse
    /\ report = [s \in StudentIds |-> NoReport]
    /\ requests = [p \in Procs |-> Idle]
    /\ NoBoards

NextAdmin ==
    \E actor \in Users, uid \in UserIds, r \in RoleNames :
       \/ add_role_to_user(actor, uid, r)
       \/ remove_role_from_user(actor, uid, r)

SpecAdmin == InitAdmin /\ [][NextAdmin]_vars

-----------------------------------------------------------------------------
(* One analytics request in flight: user 1 with any roles, with or without *)
(* a student profile, user 2 with any role and student profile 1, every    *)
(* student enrolled in the one course, user 1 a parent of student 1 or not. *)

InitResolve ==
    /\ InitRoles(MaxHeldRoles)
    /\ google_access_token \in [Users -> BOOLEAN]
    /\ students \in {[s \in 1..n |-> [user_id |-> 3 - s]] : n \in 1..2}
    /\ teachers = <<>>
    /\ courses = [c \in {1} |-> PrivateCourse(NoId, 1)]
    /\ student_courses = {<<s, 1>> : s \in DOMAIN students}
    /\ parent_students \in {{}, {<<1, 1>>}}
    /\ assignments = [a \in {1} |-> [course_id |-> 1, max_points |-> 100,
                                     due_date |-> NoId]]
    /\ student_assignments = {}
    /\ grade_records = {}
    /\ progress_reports = {}
    /\ now = 0
    /\ \E op \in {"list_grades", "get_dashboard", "get_trends", "get_course_trends",
                  "get_subject_detail", "sync_grades"},
          u \in Users, s \in {NoId} \cup StudentIds :
          resp = Response(op, u, s, 0, "", FALSE)
    /\ report = [s \in StudentIds |-> NoReport]
    /\ requests = [p \in Procs |-> Idle]
    /\ NoBoards

\* The request in flight is answered by its route.
NextResolve ==
    /\ resp.status = 0
    /\ \/ resp.op = "list_grades" /\ list_grades(resp.user, resp.target)
       \/ resp.op = "get_dashboard" /\ get_dashboard(resp.user, resp.target)
       \/ resp.op = "get_trends" /\ get_trends(resp.user, resp.target)
       \/ /\ resp.op = "get_course_trends"
          /\ \E c \in CourseIds : get_course_trends(resp.user, resp.target, c)
       \/ /\ resp.op = "get_subject_detail"
          /\ \E c \in CourseIds : get_subject_detail(resp.user, resp.target, c)
       \/ /\ resp.op = "sync_grades"
          /\ \E g \in GradedAnswers : sync_grades(resp.user, resp.target, g)

SpecResolve == InitResolve /\ [][NextResolve]_vars

-----------------------------------------------------------------------------
(* The task routes on the second day: user 1 a parent, user 2 a student    *)
(* with profile 1, linked or not, enrolled in a private course of neither; *)
(* no tasks yet.                                                           *)

InitTasks ==
    /\ role = [u \in Users |-> IF u = 1 THEN "parent" ELSE "student"]
    /\ roles = [u \in Users |-> <<role[u]>>]
    /\ google_access_token = [u \in Users |-> FALSE]
    /\ students = [s \in {1} |-> [user_id |-> 2]]
    /\ teachers = <<>>
    /\ courses = [c \in {1} |->
                    [created_by_user_id |-> NoId, is_private |-> TRUE,
                     teacher_id |-> NoId, google_classroom_id |-> NoId,
     is_default |-> FALSE]]
    /\ student_courses = {<<1, 1>>}
    /\ parent_students \in {{}, {<<1, 1>>}}
    /\ InitGrades(Day)

NextTasks ==
    \/ \E u \in Users, a \in {NoId, 2, 3} : create_task(u, a)
    \/ \E u \in Users, tid \in TaskIds : get_task(u, tid)
    \/ \E u \in Users, tid \in TaskIds, request \in TaskUpdates :
          update_task(u, tid, request)
    \/ \E u \in Users, tid \in TaskIds : delete_task(u, tid)
    \/ \E u \in Users, tid \in TaskIds : restore_task(u, tid)
    \/ \E u \in Users, tid \in TaskIds : permanent_delete_task(u, tid)
    \/ \E u \in Users, include_archived \in BOOLEAN : list_tasks(u, include_archived)
    \/ \E u \in Users, c \in CourseIds : get_course(u, c)
    \/ \E u \in Users, st \in StudentIds : list_grades(u, st)

SpecTasks == InitTasks /\ [][NextTasks]_vars

-----------------------------------------------------------------------------------------------------------------------------------------------------
(* The FAQ board: user 1 holds admin and parent and acts as either, user 2 *)
(* is a parent; two open questions of user 2, the second deleted or not as *)
(* the specification says, and no question 3; no answers yet.              *)

FaqBoard(second_deleted) ==
    /\ role \in {[u \in Users |-> IF u = 1 THEN r ELSE "parent"] : r \in {"admin", "parent"}}
    /\ roles = [u \in Users |-> IF u = 1 THEN <<"admin", "parent">> ELSE <<"parent">>]
    /\ google_access_token = [u \in Users |-> FALSE]
    /\ students = <<>>
    /\ teachers = <<>>
    /\ courses = <<>>
    /\ student_courses = {}
    /\ parent_students = {}
    /\ assignments = <<>>
    /\ student_assignments = {}
    /\ grade_records = {}
    /\ progress_reports = {}
    /\ now = Day
    /\ resp = FaqResponse("none", NoId, NoId, 0)
    /\ report = [s \in StudentIds |-> NoReport]
    /\ requests = [p \in Procs |-> Idle]
    /\ tasks = {}
    /\ faq_questions = [q \in {1, 2} |-> [status |-> "open", created_by_user_id |-> 2,
                                          archived |-> q = 2 /\ second_deleted]]
    /\ faq_answers = {}

(* Moderation: every answer route, one question that takes answers. *)

InitFaq == FaqBoard(TRUE)

NextFaq ==
    \/ \E u \in Users, q \in QuestionIds : submit_answer(u, q, 1)
    \/ \E u \in Users, a \in AnswerIds : update_answer(u, a, 2)
    \/ \E u \in Users, a \in AnswerIds : approve_answer(u, a)
    \/ \E u \in Users, a \in AnswerIds : reject_answer(u, a)
    \/ \E u \in Users, a \in AnswerIds : mark_official(u, a)
    \/ \E u \in Users, a \in AnswerIds : admin_delete_answer(u, a)

SpecFaq == InitFaq /\ [][NextFaq]_vars

(* Official answers: submit, approve, reject, mark official and delete on *)
(* two questions that take answers.                                        *)

InitOfficial == FaqBoard(FALSE)

NextOfficial ==
    \/ \E u \in Users, q \in QuestionIds : submit_answer(u, q, 1)
    \/ \E u \in Users, a \in AnswerIds : approve_answer(u, a)
    \/ \E u \in Users, a \in AnswerIds : reject_answer(u, a)
    \/ \E u \in Users, a \in AnswerIds : mark_official(u, a)
    \/ \E u \in Users, a \in AnswerIds : admin_delete_answer(u, a)

SpecOfficial == InitOfficial /\ [][NextOfficial]_vars

-----------------------------------------------------------------------------
(* Enrollment and grades: user 1 is an admin with a Google token, user 2   *)
(* the student of profile 1; two public Google Classroom courses of user   *)
(* 1, no enrollment, no assignment, no grade.                              *)

\* What Google Classroom answers to one sync: a grade of 40 for user 2 on
\* either assignment.
EnrollmentAnswers ==
    [ok : {TRUE}, assignment : 1..MaxCreated, maxPoints : {NoId}, userId : {2},
     grade : {40}]

InitEnrollment ==
    /\ role = [u \in Users |-> IF u = 1 THEN "admin" ELSE "student"]
    /\ roles = [u \in Users |-> IF u = 1 THEN <<"admin">> ELSE <<"student">>]
    /\ google_access_token = [u \in Users |-> u = 1]
    /\ students = [s \in {1} |-> [user_id |-> 2]]
    /\ teachers = <<>>
    /\ courses = [c \in CourseIds |->
                    [created_by_user_id |-> 1, is_private |-> FALSE,
                     teacher_id |-> NoId, google_classroom_id |-> c,
     is_default |-> FALSE]]
    /\ student_courses = {}
    /\ parent_students = {}
    /\ assignments = <<>>
    /\ student_assignments = {}
    /\ grade_records = {}
    /\ progress_reports = {}
    /\ now = Day
    /\ resp = NoResp
    /\ report = [s \in StudentIds |-> NoReport]
    /\ requests = [p \in Procs |-> Idle]
    /\ NoBoards

NextEnrollment ==
    \/ \E c \in CourseIds : enroll_in_course(2, c)
    \/ \E c \in CourseIds : unenroll_from_course(2, c)
    \/ \E c \in CourseIds : create_assignment(1, c, 100)
    \/ \E g \in EnrollmentAnswers : sync_grades(1, 1, g)
    \/ compute_summary_call(1)

SpecEnrollment == InitEnrollment /\ [][NextEnrollment]_vars

-----------------------------------------------------------------------------
(* The course routes from an empty course table: user 1 an admin, a        *)
(* teacher or a parent, user 2 a student or a teacher, each with the       *)
(* single role held; user 2 has student profile 1 and teacher profile 1,   *)
(* user 1 may have profiles 2; user 1 is linked as parent to profile 1.    *)

InitCourseRoutes ==
    /\ role \in {[u \in Users |-> IF u = 1 THEN r1 ELSE r2] :
                    r1 \in {"admin", "teacher", "parent"}, r2 \in {"student", "teacher"}}
    /\ roles = [u \in Users |-> <<role[u]>>]
    /\ google_access_token = [u \in Users |-> FALSE]
    /\ InitProfiles
    /\ courses = <<>>
    /\ student_courses = {}
    /\ parent_students = {<<1, 1>>}
    /\ assignments = <<>>
    /\ student_assignments = {}
    /\ grade_records = {}
    /\ progress_reports = {}
    /\ now = Day
    /\ resp = NoResp
    /\ report = [s \in StudentIds |-> NoReport]
    /\ requests = [p \in Procs |-> Idle]
    /\ NoBoards

NextCourseRoutes ==
    \/ \E u \in Users, e \in {NoId} \cup Emails, d \in BOOLEAN : create_course(u, e, d)
    \/ \E u \in Users, c \in CourseIds, e \in {NotSent, 0} \cup Emails : update_course(u, c, e)
    \/ \E u \in Users, c \in CourseIds : enroll_in_course(u, c)
    \/ \E u \in Users, c \in CourseIds : unenroll_from_course(u, c)
    \/ \E u \in Users, c \in CourseIds, e \in Emails : add_student_to_course(u, c, e)
    \/ \E u \in Users, c \in CourseIds, s \in StudentIds : remove_student_from_course(u, c, s)
    \/ \E u \in Users : get_default_course(u)
    \/ \E u \in Users : list_courses_call(u)

SpecCourseRoutes == InitCourseRoutes /\ [][NextCourseRoutes]_vars

-----------------------------------------------------------------------------
(* Properties of the access checks *)

\* The roles a user holds.
Held(u) == Range(roles[u])

\* The four grants of student access, as the specification lists them.
StudentGrant(u, s) ==
    \/ "admin" \in Held(u)
    \/ "student" \in Held(u) /\ students[s].user_id = u
    \/ "parent" \in Held(u) /\ <<u, s>> \in parent_students
    \/ /\ "teacher" \in Held(u)
       /\ \E t \in DOMAIN teachers, c \in DOMAIN courses :
             /\ teachers[t].user_id = u
             /\ courses[c].teacher_id = t
             /\ <<s, c>> \in student_courses

\* The grants of student access other than the parent link.
GrantWithoutLink(u, s) ==
    \/ "admin" \in Held(u)
    \/ "student" \in Held(u) /\ students[s].user_id = u
    \/ /\ "teacher" \in Held(u)
       /\ \E t \in DOMAIN teachers, c \in DOMAIN courses :
             /\ teachers[t].user_id = u
             /\ courses[c].teacher_id = t
             /\ <<s, c>> \in student_courses

\* A step that is a request of route op answered in the next state.
Answered(op) == resp' # resp /\ resp'.op = op

\* C1: a grade listing requested for an existing student is answered 200
\* exactly when the caller holds admin, or holds student and owns the
\* profile, or holds parent and is linked to the student, or holds teacher,
\* has a teacher profile and teaches a course the student is enrolled in;
\* it is answered 403 in every other case.
C1_StudentGate ==
    [][(Answered("list_grades") /\ resp'.target \in DOMAIN students)
          => IF StudentGrant(resp'.user, resp'.target)
             THEN resp'.status = 200
             ELSE resp'.status = 403]_vars

\* A teacher who is neither admin, owner nor parent was let in.
C1_Witness ==
    /\ resp.op = "list_grades"
    /\ resp.status = 200
    /\ resp.target \in DOMAIN students
    /\ Held(resp.user) = {"teacher", "parent"}
    /\ role[resp.user] = "parent"
    /\ <<resp.user, resp.target>> \notin parent_students

\* C2: a user who holds parent, has no link to an existing student and no
\* other grant is refused (403); a step that inserts exactly that link and
\* changes no other table makes the same check grant (200); and a grade
\* listing changes no table.
C2_ParentLink ==
    [][/\ \A p \in Users, s \in DOMAIN students :
             ("parent" \in Held(p) /\ <<p, s>> \notin parent_students
                 /\ ~GrantWithoutLink(p, s))
             => /\ get_student_or_403(s, p) = 403
                /\ (/\ parent_students' = parent_students \cup {<<p, s>>}
                    /\ UNCHANGED <<role, roles, students, teachers, courses,
                                   student_courses, stored>>)
                   => get_student_or_403(s, p)' = 200
       /\ Answered("list_grades") => UNCHANGED <<relations, stored, now, weekly>>]_vars

\* A parent without any other grant has just been linked to an existing
\* student and is now let in.
C2_Witness ==
    /\ resp.op = "link_child"
    /\ resp.status = 200
    /\ resp.target \in DOMAIN students
    /\ <<resp.user, resp.target>> \in parent_students
    /\ ~GrantWithoutLink(resp.user, resp.target)
    /\ get_student_or_403(resp.target, resp.user) = 200

\* The six grants of course access over the roles a user holds.
CourseGrantHeld(u, c) ==
    \/ "admin" \in Held(u)
    \/ courses[c].created_by_user_id = u
    \/ ~courses[c].is_private
    \/ /\ "teacher" \in Held(u)
       /\ \E t \in DOMAIN teachers :
             teachers[t].user_id = u /\ courses[c].teacher_id = t
    \/ /\ "student" \in Held(u)
       /\ \E s \in DOMAIN students :
             students[s].user_id = u /\ <<s, c>> \in student_courses
    \/ /\ "parent" \in Held(u)
       /\ \E s \in DOMAIN students :
             <<u, s>> \in parent_students /\ <<s, c>> \in student_courses

\* C3: a request for an existing course is granted exactly when one of the
\* six conditions holds for the roles the caller holds: admin, creator,
\* course not private, teacher of the course, enrolled student, parent of
\* an enrolled student.
C3_CourseGateHeldRoles ==
    [][(Answered("get_course") /\ resp'.target \in DOMAIN courses)
          => (resp'.status = 200 <=> CourseGrantHeld(resp'.user, resp'.target))]_vars

\* C4: a request for an existing course that is not private is granted to
\* every user, whatever the roles and the edges.
C4_PublicCourse ==
    [][(/\ Answered("get_course")
        /\ resp'.target \in DOMAIN courses
        /\ ~courses[resp'.target].is_private)
          => resp'.status = 200]_vars

\* A user with no tie to a public course was let in: not admin, not the
\* creator, no teacher, student or parent tie.
C4_Witness ==
    /\ resp.op = "get_course"
    /\ resp.status = 200
    /\ resp.target \in DOMAIN courses
    /\ ~courses[resp.target].is_private
    /\ courses[resp.target].created_by_user_id # resp.user
    /\ "admin" \notin Held(resp.user)
    /\ courses[resp.target].teacher_id = NoId
    /\ student_courses = {}

-----------------------------------------------------------------------------
(* Properties of the analytics routes *)

AnalyticsOps ==
    {"list_grades", "get_dashboard", "get_trends", "get_course_trends",
     "get_subject_detail", "sync_grades"}

\* What the claim asks of the response to a request naming student sid.
GateFirst(sid) ==
    /\ sid \notin DOMAIN students
          => /\ resp'.status = 404
             /\ resp'.detail = "Student not found"
    /\ (sid \in DOMAIN students /\ ~StudentGrant(resp'.user, sid))
          => resp'.status = 403
    /\ (sid \in DOMAIN students /\ StudentGrant(resp'.user, sid))
          => /\ resp'.status # 403
             /\ resp'.detail # "Student not found"
    /\ (resp'.status = 403 \/ resp'.detail = "Student not found")
          => /\ ~resp'.aggregated
             /\ UNCHANGED <<relations, stored, now, weekly>>

\* C5 as claimed: every analytics request that names a student is answered
\* 404 when the student is missing and 403 when the caller has no access,
\* before any other work.
C5_GateBeforeAnyWork ==
    [][(\E op \in AnalyticsOps : Answered(op)) /\ resp'.target # NoId
          => GateFirst(resp'.target)]_vars

\* C5 amended: the same for every request that passed the route's checks
\* of the request itself: the student id resolves, and for sync_grades the
\* caller has a Google token.
C5_GateBeforeAggregation ==
    [][(/\ \E op \in AnalyticsOps : Answered(op)
        /\ resolve_student_id(resp'.target, resp'.user) # NoId
        /\ resp'.op = "sync_grades" => google_access_token[resp'.user])
          => GateFirst(resolve_student_id(resp'.target, resp'.user))]_vars

\* A caller with a Google token was refused a sync of a student who already
\* has synced grades.
C5_Witness ==
    /\ resp.op = "sync_grades"
    /\ resp.status = 403
    /\ google_access_token[resp.user]
    /\ \E r \in grade_records : r.student_id = resp.target

-----------------------------------------------------------------------------
(* Properties of the weekly report *)

\* A weekly report request of student s returns in this step.
WeeklyAnswered(s) == report'[s] # report[s]

\* Monday 00:00:00 of the week containing the instant t; instant 0 is a
\* Monday 00:00:00.
MondayOf(t) == t - (t % (7 * Day))

\* The rows stored under the key of student s and the week containing t.
KeyRows(s, t) ==
    {r \in progress_reports : /\ r.student_id = s
                              /\ r.report_type = "weekly"
                              /\ r.period_start = MondayOf(t)}

\* C6, as stated: two weekly report requests of a student less than 24
\* hours apart return the same report id, and the second is a cache hit
\* that recomputes nothing and writes nothing.
C6_TwiceWithinADay ==
    [][\A s \in DOMAIN students :
          (/\ WeeklyAnswered(s)
           /\ report[s].id # NoId
           /\ now - report[s].at < Day)
          => /\ report'[s].id = report[s].id
             /\ report'[s].outcome = "cached"
             /\ report'[s].data = report[s].data
             /\ UNCHANGED progress_reports]_vars

\* C6, amended: with the requests of a student served one at a time, a
\* request in the same week as the one before it and less than 24 hours
\* after the generated_at of the report that one returned gives the same
\* report id and is a cache hit: the same payload, nothing written.
C6_TwiceWithinADayOfGeneration ==
    [][\A s \in DOMAIN students :
          (/\ WeeklyAnswered(s)
           /\ report[s].id # NoId
           /\ MondayOf(now) = report[s].period_start
           /\ now - report[s].generated_at < Day)
          => /\ report'[s].id = report[s].id
             /\ report'[s].outcome = "cached"
             /\ report'[s].data = report[s].data
             /\ report'[s].generated_at = report[s].generated_at
             /\ UNCHANGED progress_reports]_vars

\* A second request was a cache hit, later than the generation of the
\* report, in the week of the report.
C6_Witness ==
    \E s \in DOMAIN students :
       /\ report[s].outcome = "cached"
       /\ report[s].at > report[s].generated_at
       /\ report[s].at - report[s].generated_at < Day
       /\ MondayOf(report[s].at) = report[s].period_start

\* C7: the ProgressReport table holds at most one row for a student, a
\* report type and a period_start, whatever the interleaving of requests.
C7_OneRowPerKey ==
    \A r1, r2 \in progress_reports :
       (/\ r1.student_id = r2.student_id
        /\ r1.report_type = r2.report_type
        /\ r1.period_start = r2.period_start) => r1.id = r2.id

\* C8: a request that finds the row of the current week less than 24
\* hours old returns the payload stored in it and leaves the row's id,
\* data, generated_at and period_end as they are, also when the grades of
\* the student changed since.
C8_FreshServedUnchanged ==
    [][\A s \in DOMAIN students :
          WeeklyAnswered(s) =>
             \A row \in KeyRows(s, now) :
                now - row.generated_at < Day
                => /\ report'[s].id = row.id
                   /\ report'[s].data = row.data
                   /\ report'[s].generated_at = row.generated_at
                   /\ report'[s].period_end = row.period_end
                   /\ row \in progress_reports'
                   /\ UNCHANGED progress_reports]_vars

\* A cache hit returned a payload that is not the one the grades of that
\* moment give.
C8_Witness ==
    \E s \in DOMAIN students :
       /\ report[s].outcome = "cached"
       /\ report[s].at = now
       /\ \E row \in progress_reports : /\ row.id = report[s].id
                                        /\ row.data = report[s].data
                                        /\ row.data # report_data(s)

\* C9: with no row for the student and the current week a request
\* inserts exactly one row and returns it; with a row 24 hours old or
\* older it recomputes, overwrites data and generated_at of that row,
\* returns the same primary key, leaves the number of rows as it is, and
\* the row is fresh afterwards.
C9_AbsentAndStale ==
    [][\A s \in DOMAIN students :
          WeeklyAnswered(s) =>
             /\ KeyRows(s, now) = {}
                => /\ progress_reports \subseteq progress_reports'
                   /\ Cardinality(progress_reports') =
                         Cardinality(progress_reports) + 1
                   /\ \E row \in progress_reports' \ progress_reports :
                         /\ row.id = report'[s].id
                         /\ row.id \notin {r.id : r \in progress_reports}
                         /\ row.student_id = s
                         /\ row.report_type = "weekly"
                         /\ row.period_start = MondayOf(now)
                         /\ row.data = report_data(s)
                         /\ row.generated_at = now
                         /\ report'[s].data = row.data
             /\ \A old \in KeyRows(s, now) :
                   now - old.generated_at >= Day
                   => /\ report'[s].id = old.id
                      /\ report'[s].data = report_data(s)
                      /\ Cardinality(progress_reports') =
                            Cardinality(progress_reports)
                      /\ progress_reports' =
                            (progress_reports \ {old}) \cup
                            {[old EXCEPT !.data = report_data(s),
                                         !.generated_at = now]}
                      /\ \A row \in progress_reports' :
                            row.id = old.id => now - row.generated_at < Day]_vars

\* A row was overwritten at the age of exactly 24 hours: the only time of
\* the Monday's week before this request is the Monday's first second.
C9_Witness ==
    \E s \in DOMAIN students :
       /\ report[s].outcome = "updated"
       /\ report[s].period_start = 7 * Day
       /\ report[s].at = 8 * Day
       /\ report[s].generated_at = 8 * Day

\* C10: a row whose period_start is not the Monday 00:00:00 of the week
\* containing the current time is neither returned nor changed by a
\* request, however recent its generated_at; the report returned is for
\* the week from that Monday 00:00:00 to the Sunday 23:59:59.
C10_OtherWeeksUntouched ==
    [][\A s \in DOMAIN students :
          WeeklyAnswered(s) =>
             /\ report'[s].period_start = MondayOf(now)
             /\ report'[s].period_end = MondayOf(now) + 7 * Day - 1
             /\ \E row \in progress_reports' :
                   /\ row.id = report'[s].id
                   /\ row.student_id = s
                   /\ row.period_start = MondayOf(now)
             /\ \A row \in progress_reports :
                   row.period_start # MondayOf(now)
                   => /\ row \in progress_reports'
                      /\ report'[s].id # row.id]_vars

\* A request in a new week inserted a row while the row of the week
\* before was less than 24 hours old.
C10_Witness ==
    \E s \in DOMAIN students :
       /\ report[s].outcome = "inserted"
       /\ report[s].at = now
       /\ \E row \in progress_reports :
             /\ row.student_id = s
             /\ row.period_start # report[s].period_start
             /\ now - row.generated_at < Day

\* C11: two requests for a student and week that overlap on a stale row
\* both recompute and both write that row, neither waits for the other;
\* the key keeps its one row and its primary key, and after each write
\* the stored payload is whole the payload of the request that wrote.
C11_LastWriterWins ==
    [][\A p \in Procs :
          LET r == requests[p]
              rows == {x \in progress_reports : /\ x.student_id = r.sid
                                                /\ x.report_type = "weekly"
                                                /\ x.period_start = r.start}
          IN  (/\ r.pc = "commit"
               /\ requests'[p].pc = "idle"
               /\ r.existing # NoId
               /\ Cardinality(rows) = 1)
              => /\ Cardinality(progress_reports') = Cardinality(progress_reports)
                 /\ \A x \in progress_reports : x \notin rows => x \in progress_reports'
                 /\ \E x \in progress_reports' :
                       /\ x.id = r.existing
                       /\ x.student_id = r.sid
                       /\ x.period_start = r.start
                       /\ x.data = r.data
                       /\ x.generated_at = now
                       /\ report'[r.sid].id = x.id
                       /\ report'[r.sid].data = r.data]_vars

\* One request has overwritten the stale row and the other, which read
\* the row before that, is about to overwrite it with another payload.
C11_Witness ==
    \E p \in Procs, s \in DOMAIN students :
       /\ report[s].outcome = "updated"
       /\ report[s].at = now
       /\ requests[p].pc = "commit"
       /\ requests[p].sid = s
       /\ requests[p].existing = report[s].id
       /\ requests[p].start = report[s].period_start
       /\ requests[p].data # report[s].data
       /\ Cardinality({x \in progress_reports :
                          x.student_id = s /\ x.period_start = report[s].period_start}) = 1
       /\ \E x \in progress_reports : /\ x.id = report[s].id
                                      /\ x.data = report[s].data
                                      /\ x.generated_at = now

-----------------------------------------------------------------------------
(* Properties of the trend *)

\* The whole-number percentages of a list.
Values(q) == [i \in 1..Len(q) |-> q[i][1] \div q[i][2]]

RECURSIVE Sum(_)
Sum(q) == IF q = <<>> THEN 0 ELSE Head(q) + Sum(Tail(q))

\* The sum of the last floor(n/3) values less the sum of the first
\* floor(n/3) values, and that count: the difference of the two means
\* times the count.
ThirdOf(q) == IF Len(q) \div 3 >= 1 THEN Len(q) \div 3 ELSE 1

ThirdsGap(q) ==
    Sum(SubSeq(Values(q), Len(q) - ThirdOf(q) + 1, Len(q)))
        - Sum(SubSeq(Values(q), 1, ThirdOf(q)))

\* determine_trend has returned.
Returned == resp.op = "determine_trend"

\* C12: on a list of three or more percentages the trend is "improving"
\* when the mean of the last third is 3 or more above the mean of the
\* first third, "declining" when it is 3 or more below, else "stable".
C12_ThirdsThreshold ==
    (Returned /\ Len(resp.percentages) >= 3)
    => LET q == resp.percentages
       IN  resp.trend = IF ThirdsGap(q) >= 3 * ThirdOf(q) THEN "improving"
                        ELSE IF ThirdsGap(q) <= -3 * ThirdOf(q) THEN "declining"
                        ELSE "stable"

\* C12, amended: on a list of three or more percentages the trend is
\* "improving" when the mean of the last third is more than 3 above the
\* mean of the first third, "declining" when it is more than 3 below,
\* else "stable"; a difference of exactly 3 either way is "stable".
C12_ThirdsThresholdStrict ==
    (Returned /\ Len(resp.percentages) >= 3)
    => LET q == resp.percentages
       IN  resp.trend = IF ThirdsGap(q) > 3 * ThirdOf(q) THEN "improving"
                        ELSE IF ThirdsGap(q) < -3 * ThirdOf(q) THEN "declining"
                        ELSE "stable"

\* A list of six whose thirds of two differ by exactly 3 in the mean was
\* found stable.
C12_Witness ==
    /\ Returned
    /\ Len(resp.percentages) = 6
    /\ ThirdsGap(resp.percentages) = 3 * ThirdOf(resp.percentages)
    /\ ThirdOf(resp.percentages) = 2
    /\ resp.trend = "stable"

\* C13: a list of fewer than three percentages is "stable" whatever its
\* values.
C13_ShortListStable ==
    (Returned /\ Len(resp.percentages) < 3) => resp.trend = "stable"

\* A list of two values 8 apart was found stable.
C13_Witness ==
    /\ Returned
    /\ Len(resp.percentages) = 2
    /\ ThirdsGap(resp.percentages) > 3
    /\ resp.trend = "stable"

StrictlyIncreasing(q) == \A i \in 1..(Len(q) - 1) : q[i] < q[i + 1]

StrictlyDecreasing(q) == \A i \in 1..(Len(q) - 1) : q[i] > q[i + 1]

Flat(q) == \A i \in 1..(Len(q) - 1) : q[i] = q[i + 1]

\* C14, as stated: on three or more percentages every strictly increasing
\* list is "improving", every strictly decreasing list "declining" and
\* every flat list "stable".
C14_Monotonic ==
    (Returned /\ Len(resp.percentages) >= 3)
    => LET v == Values(resp.percentages)
       IN  /\ StrictlyIncreasing(v) => resp.trend = "improving"
           /\ StrictlyDecreasing(v) => resp.trend = "declining"
           /\ Flat(v) => resp.trend = "stable"

\* C14, amended: on three or more percentages a strictly increasing list
\* is never "declining", and is "improving" when the mean of its last
\* third is more than 3 above the mean of its first third; a strictly
\* decreasing list is never "improving", and is "declining" when that
\* mean is more than 3 below; every flat list is "stable".
C14_MonotonicBeyondBand ==
    (Returned /\ Len(resp.percentages) >= 3)
    => LET q == resp.percentages
           v == Values(q)
       IN  /\ StrictlyIncreasing(v)
              => /\ resp.trend # "declining"
                 /\ ThirdsGap(q) > 3 * ThirdOf(q) => resp.trend = "improving"
           /\ StrictlyDecreasing(v)
              => /\ resp.trend # "improving"
                 /\ ThirdsGap(q) < -3 * ThirdOf(q) => resp.trend = "declining"
           /\ Flat(v) => resp.trend = "stable"

\* A strictly increasing list of six, thirds of two, was found improving.
C14_Witness ==
    /\ Returned
    /\ Len(resp.percentages) = 6
    /\ StrictlyIncreasing(Values(resp.percentages))
    /\ resp.trend = "improving"

-----------------------------------------------------------------------------
(* Properties of the summary *)

\* compute_summary has returned or raised for student s.
Summarised(s) == resp.op = "compute_summary" /\ resp.student = s

\* The graded records of a student: rows with a grade on an assignment
\* with positive max_points.
GradedOf(s) ==
    {r \in student_assignments :
        r.student_id = s /\ r.grade # NoId /\ assignments[r.assignment_id].max_points > 0}

\* C15: for a student without a graded record, whatever the enrollment
\* and the assignments, compute_summary does not raise and returns an
\* overall_average of 0.0, a total_graded of 0, a completion_rate of 0.0,
\* the trend "stable" and no course_averages.
C15_EmptySummary ==
    \A s \in DOMAIN students :
       (Summarised(s) /\ GradedOf(s) = {})
       => /\ ~resp.raised
          /\ resp.summary.overall_average = 0
          /\ resp.summary.total_graded = 0
          /\ resp.summary.completion_rate = 0
          /\ resp.summary.trend = "stable"
          /\ resp.summary.course_averages = <<>>

\* The summary of a student without a graded record who is enrolled in a
\* course with assignments, one of them graded on an assignment without
\* points.
C15_Witness ==
    /\ Summarised(1)
    /\ GradedOf(1) = {}
    /\ resp.summary.total_assignments > 0
    /\ \E r \in student_assignments : r.grade # NoId
    /\ resp.summary.total_graded = 0

\* The graded records of a student in a course, and the assignments of a
\* course.
GradedIn(s, c) == {r \in GradedOf(s) : assignments[r.assignment_id].course_id = c}

AssignmentsIn(c) == {a \in DOMAIN assignments : assignments[a].course_id = c}

\* x is count / total * 100 rounded to two decimals, in hundredths: no
\* whole number of hundredths is nearer.
IsRoundedRate(x, count, total) ==
    LET d == x * total - count * 10000
    IN  2 * (IF d < 0 THEN -d ELSE d) <= total

\* C16: compute_summary never divides by zero, and every entry of
\* course_averages has a completion_rate of the student's graded count in
\* that course over the number of assignments of that course, times 100,
\* rounded to two decimals, and of 0.0 for a course without assignments.
C16_CourseCompletionRate ==
    \A s \in DOMAIN students :
       Summarised(s)
       => /\ ~resp.raised
          /\ DOMAIN resp.summary.course_averages =
                {c \in DOMAIN courses : GradedIn(s, c) # {}}
          /\ \A c \in DOMAIN resp.summary.course_averages :
                LET e == resp.summary.course_averages[c]
                IN  /\ e.graded_count = Cardinality(GradedIn(s, c))
                    /\ e.total_count = Cardinality(AssignmentsIn(c))
                    /\ IF AssignmentsIn(c) = {} THEN e.completion_rate = 0
                       ELSE IsRoundedRate(e.completion_rate, e.graded_count,
                                          e.total_count)

\* A course with three assignments, one of them without points, and one
\* graded record: a completion rate of 33.33.
C16_Witness ==
    /\ Summarised(1)
    /\ \E c \in DOMAIN resp.summary.course_averages :
          /\ resp.summary.course_averages[c].completion_rate = 3333
          /\ \E a \in AssignmentsIn(c) : assignments[a].max_points = 0

-----------------------------------------------------------------------------
(* Properties of the grade records *)

\* C17: every GradeRecord, as the seed or the sync upsert wrote or
\* overwrote it, has a percentage of its own grade over its own max_grade,
\* times 100, rounded to two decimals, and no operation leaves a row
\* otherwise.
C17_PercentageOfOwnGrade ==
    \A r \in grade_records :
       /\ r.max_grade > 0
       /\ IsRoundedRate(r.percentage, r.grade, r.max_grade)

\* The seed wrote rows 1 and 2 the day before, and a sync has overwritten
\* row 1 with 40 out of 60: 66.67 percent.
C17_Witness ==
    \E r1, r2 \in grade_records :
       /\ r1.id = 1 /\ r2.id = 2
       /\ r2.recorded_at < 0
       /\ r1.recorded_at >= 0
       /\ r1.grade = 40 /\ r1.max_grade = 60 /\ r1.percentage = 6667

\* Two grade records of the same student and assignment.
SamePair(r1, r2) ==
    /\ r1.assignment_id # NoId
    /\ r1.student_id = r2.student_id
    /\ r1.assignment_id = r2.assignment_id

\* C18: after any sequence of grade syncs there is at most one GradeRecord
\* for a student and an assignment; a sync of a pair that has a row
\* overwrites grade, max_grade, percentage and recorded_at of that row and
\* adds none, and the rows of other students and assignments stay as they
\* are.
C18_OneRowPerPair ==
    [][/\ \A r1, r2 \in grade_records' : SamePair(r1, r2) => r1 = r2
       /\ Cardinality(grade_records' \ grade_records) <= 1
       /\ \A n \in grade_records' \ grade_records :
             /\ n.recorded_at = now
             /\ \A r \in grade_records :
                   IF SamePair(r, n)
                   THEN /\ n.id = r.id
                        /\ n.course_id = r.course_id
                        /\ r \notin grade_records'
                        /\ Cardinality(grade_records') = Cardinality(grade_records)
                   ELSE r \in grade_records'
             /\ (\A r \in grade_records : ~SamePair(r, n))
                => grade_records' = grade_records \cup {n}]_vars

\* Row 1 was written before row 2, row 2 on the first day, and a sync of
\* the second day has overwritten row 1 and left row 2.
C18_Witness ==
    /\ Cardinality(grade_records) = 2
    /\ \E r1, r2 \in grade_records :
          /\ r1.id = 1 /\ r2.id = 2
          /\ r2.recorded_at = 0
          /\ r1.recorded_at = Day
          /\ r1.grade = 45 /\ r1.max_grade = 60 /\ r1.percentage = 7500

-----------------------------------------------------------------------------
(* Properties of the grade list *)

\* The student a listing is about: the one named, or the requester's own.
Listed ==
    IF resp.target # NoId THEN resp.target
    ELSE CHOOSE s \in DOMAIN students : students[s].user_id = resp.user

\* The stored rows of the listed student, of the course asked for if any.
Matching ==
    {r \in grade_records :
        /\ r.student_id = Listed
        /\ resp.course_id # NoId => r.course_id = resp.course_id}

Least(a, b) == IF a < b THEN a ELSE b

-----------------------------------------------------------------------------
(* Properties of the trend points *)

\* The date a row is shown under: the due date of its assignment, or the
\* creation of the row where the assignment has none.
DateOf(r) ==
    IF assignments[r.assignment_id].due_date # NoId
    THEN assignments[r.assignment_id].due_date
    ELSE r.created_at

\* The graded rows of the student the trend was asked for, of the course
\* asked for if any, dated within the last days days.
InWindow ==
    {r \in student_assignments :
        /\ r.student_id = resp.student
        /\ r.grade # NoId
        /\ assignments[r.assignment_id].max_points > 0
        /\ resp.course_id # NoId =>
              assignments[r.assignment_id].course_id = resp.course_id
        /\ DateOf(r) >= now - resp.days * Day
        /\ DateOf(r) <= now}

\* C20: the points compute_trend_points returns are in the order of their
\* dates, they are exactly the graded rows of the student (of the course
\* asked for) dated within the last days days, so that every date lies in
\* the window, and the label is determine_trend of their percentages.
C20_WindowedChronological ==
    (resp.op = "compute_trend_points") =>
        /\ \A i, j \in DOMAIN resp.points :
              i < j => resp.points[i].date <= resp.points[j].date
        /\ \A i \in DOMAIN resp.points :
              /\ resp.points[i].date >= now - resp.days * Day
              /\ resp.points[i].date <= now
        /\ {resp.points[i].assignment_id : i \in DOMAIN resp.points} =
              {r.assignment_id : r \in InWindow}
        /\ Len(resp.points) = Cardinality(InWindow)
        /\ resp.trend =
              determine_trend([i \in DOMAIN resp.points |->
                                 <<resp.points[i].percentage, 100>>])

-----------------------------------------------------------------------------
(* Properties of the admin role routes *)

\* The roles a user holds, the active role alone where the roles column
\* was never filled.
HeldRoles(u) == {r \in Roles : HasRole(u, r)}

\* The same after the step.
HeldRolesAfter(u) ==
    {r \in Roles : IF roles'[u] = <<>> THEN role'[u] = r
                   ELSE \E i \in DOMAIN roles'[u] : roles'[u][i] = r}

\* C21: before and after every add-role or remove-role every user holds at
\* least one role, and a remove-role aimed at a user who holds a single role
\* is answered with an error and leaves the roles column and the active role
\* of every user as they were.
C21_LastRoleStays ==
    [][/\ \A u \in Users : HeldRoles(u) # {} /\ HeldRolesAfter(u) # {}
       /\ \A u \in Users : roles'[u] # roles[u] => roles'[u] # <<>>
       /\ (/\ resp'.op = "remove_role"
           /\ resp'.target \in Users
           /\ Cardinality(HeldRoles(resp'.target)) = 1)
          => /\ resp'.status >= 400
             /\ roles' = roles
             /\ role' = role]_vars

\* An admin asked to remove the only role a user holds, and was refused.
C21_Witness ==
    /\ resp.op = "remove_role"
    /\ resp.status = 400
    /\ role[resp.user] = "admin"
    /\ resp.target \in Users
    /\ HasRole(resp.target, resp.role)
    /\ Cardinality(HeldRoles(resp.target)) = 1

\* The first role of a list other than r.
FirstOther(q, r) == q[CHOOSE i \in DOMAIN q : q[i] # r /\ \A j \in 1..(i - 1) : q[j] = r]

\* C30: the active role of every user is one of the roles the user holds,
\* before and after every add-role and remove-role; add-role leaves every
\* active role as it was; a remove-role that takes away the active role of
\* its target makes the first role left in the list the active one, and any
\* other remove-role leaves the active roles as they were.
C30_ActiveRoleHeld ==
    [][/\ \A u \in Users : HasRole(u, role[u]) /\ role'[u] \in HeldRolesAfter(u)
       /\ resp'.op = "add_role" => role' = role
       /\ (resp'.op = "remove_role" /\ resp'.status = 200) =>
             IF role[resp'.target] = resp'.role
             THEN role' = [role EXCEPT ![resp'.target] =
                              FirstOther(get_roles_list(resp'.target), resp'.role)]
             ELSE role' = role
       /\ (resp'.op = "remove_role" /\ resp'.status # 200) => role' = role]_vars

\* User 2, acting as admin, had the admin role removed from itself: the
\* first of the roles left is the active one, and it is not the last.
C30_Witness ==
    /\ resp.op = "remove_role"
    /\ resp.status = 200
    /\ resp.user = 2
    /\ resp.target = 2
    /\ resp.role = "admin"
    /\ Len(roles[2]) >= 2
    /\ role[2] = roles[2][1]
    /\ role[2] # roles[2][Len(roles[2])]

-----------------------------------------------------------------------------
(* Properties of the student id resolution *)

\* The request the step answers was not turned away for a missing Google
\* token, which sync_grades tests before it resolves the student.
Resolving == resp.op = "sync_grades" => google_access_token[resp.user]

\* The caller's own student profiles.
OwnProfiles == {s \in DOMAIN students : students[s].user_id = resp.user}

\* C22: an analytics request that names a student is answered for that
\* student: never "student_id is required", "Student not found" exactly when
\* the id has no row, and 403 exactly when the caller has no grant over it.
\* A request that names none, from a caller who holds the student role and
\* has a student profile, is answered for that profile, which the caller
\* owns: neither 400 nor 403 nor "Student not found".  Every other request
\* that names none is answered 400 without any aggregation and without any
\* change to the stored data.
C22_StudentIdResolution ==
    [][(resp.status = 0 /\ resp'.status # 0) =>
          /\ (resp.target # NoId /\ Resolving) =>
                /\ resp'.detail # "student_id is required"
                /\ resp'.detail = "Student not found"
                      <=> resp.target \notin DOMAIN students
                /\ resp'.status = 403
                      <=> /\ resp.target \in DOMAIN students
                          /\ ~StudentGrant(resp.user, resp.target)
          /\ (/\ resp.target = NoId
              /\ Resolving
              /\ "student" \in Held(resp.user)
              /\ OwnProfiles # {}) =>
                /\ resp'.status \notin {400, 403}
                /\ resp'.detail # "Student not found"
                /\ resp'.aggregated
          /\ (/\ resp.target = NoId
              /\ ~("student" \in Held(resp.user) /\ OwnProfiles # {})) =>
                /\ resp'.status = 400
                /\ ~resp'.aggregated
                /\ UNCHANGED <<relations, stored, now, weekly>>]_vars

\* User 1, acting as a teacher and holding the student role, listed grades
\* without naming a student and was served its own profile, which is not
\* the first.
C22_Witness ==
    /\ resp.op = "list_grades"
    /\ resp.user = 1
    /\ resp.target = NoId
    /\ resp.status = 200
    /\ role[1] = "teacher"
    /\ "student" \in Held(1)
    /\ students[2].user_id = 1

-----------------------------------------------------------------------------
(* Properties of the task routes *)

\* The task routes that aim at one task.
TaskOps == {"get_task", "update_task", "delete_task", "restore_task",
            "permanent_delete_task"}

\* User u has no right over task t: neither its creator nor its assignee,
\* nor a parent linked to the student who is.
NoRight(u, t) ==
    /\ t.created_by_user_id # u
    /\ t.assigned_to_user_id # u
    /\ ~\E st \in DOMAIN students :
          /\ <<u, st>> \in parent_students
          /\ students[st].user_id \in {t.created_by_user_id, t.assigned_to_user_id}

\* User u has no right over course c.
NoCourseRight(u, c) ==
    /\ role[u] # "admin"
    /\ courses[c].created_by_user_id # u
    /\ courses[c].is_private
    /\ ~\E t \in DOMAIN teachers : teachers[t].user_id = u /\ courses[c].teacher_id = t
    /\ ~\E st \in DOMAIN students :
          /\ <<st, c>> \in student_courses
          /\ students[st].user_id = u \/ <<u, st>> \in parent_students

\* The step answers a request aimed at an existing task by a caller without
\* any right over it.
DeniedTask(op) ==
    /\ Answered(op)
    /\ \E t \in tasks : t.id = resp'.target /\ NoRight(resp'.user, t)

\* The refusals of course and of student access are 403.
Denied403 ==
    /\ (/\ Answered("get_course")
        /\ resp'.target \in DOMAIN courses
        /\ NoCourseRight(resp'.user, resp'.target)) => resp'.status = 403
    /\ (/\ Answered("list_grades")
        /\ resp'.target \in DOMAIN students
        /\ ~StudentGrant(resp'.user, resp'.target)) => resp'.status = 403

\* C23: a caller without any right over an existing task is answered 404
\* "Task not found" by get, update, archive, restore and permanent delete,
\* as for an id without a row, and the tasks stay as they are; refused
\* course and student access is answered 403.
C23_DeniedTaskNotFound ==
    [][/\ \A op \in TaskOps :
             DeniedTask(op) => /\ resp'.status = 404
                               /\ resp'.detail = "Task not found"
                               /\ tasks' = tasks
       /\ \A op \in TaskOps :
             (Answered(op) /\ ~\E t \in tasks : t.id = resp'.target)
                => /\ resp'.status = 404
                   /\ resp'.detail = "Task not found"
                   /\ tasks' = tasks
       /\ Denied403]_vars

\* C23 amended: the same of update, archive, restore and permanent delete;
\* get answers such a caller 403 "Not authorized to view this task", which
\* tells the task apart from an id without a row.
C23_DeniedTaskNotFoundButGet ==
    [][/\ \A op \in TaskOps \ {"get_task"} :
             DeniedTask(op) => /\ resp'.status = 404
                               /\ resp'.detail = "Task not found"
                               /\ tasks' = tasks
       /\ DeniedTask("get_task") => /\ resp'.status = 403
                                    /\ resp'.detail # "Task not found"
                                    /\ tasks' = tasks
       /\ \A op \in TaskOps :
             (Answered(op) /\ ~\E t \in tasks : t.id = resp'.target)
                => /\ resp'.status = 404
                   /\ resp'.detail = "Task not found"
                   /\ tasks' = tasks
       /\ Denied403]_vars

\* A caller without any right over a task asked for it and was answered 403.
C23_Witness ==
    /\ resp.op = "get_task"
    /\ resp.status = 403
    /\ \E t \in tasks : t.id = resp.target /\ NoRight(resp.user, t)

\* The routes of the archival lifecycle.
ArchivalOps == {"delete_task", "restore_task", "permanent_delete_task"}

\* The row a request aimed at, before the step.
Aimed == CHOOSE t \in tasks : t.id = resp'.target

TaskIdsOf(rows) == {t.id : t \in rows}

\* C24: the archive, restore and permanent delete routes change the tasks
\* only for the creator of the task they aim at; the creator's permanent
\* delete removes an archived task and answers 400 on one that is not
\* archived, which stays as it is; the creator's restore answers 400 on a
\* task that is not archived, which stays as it is, and leaves an archived
\* one with archived_at, is_completed and completed_at cleared; a row appears
\* only by create_task, so that a deleted task does not come back, and a
\* listing holds only tasks that have a row.
C24_ArchivalLifecycle ==
    [][/\ \A op \in ArchivalOps :
             (Answered(op) /\ resp'.target \in TaskIdsOf(tasks))
                => IF Aimed.created_by_user_id # resp'.user
                   THEN resp'.status >= 400 /\ tasks' = tasks
                   ELSE resp'.status \in {200, 204, 400}
       /\ \A op \in ArchivalOps : (Answered(op) /\ resp'.status >= 400) => tasks' = tasks
       /\ (/\ Answered("permanent_delete_task")
           /\ resp'.target \in TaskIdsOf(tasks)
           /\ Aimed.created_by_user_id = resp'.user)
             => IF Aimed.archived_at = NoId
                THEN resp'.status = 400 /\ tasks' = tasks
                ELSE resp'.status = 204 /\ tasks' = tasks \ {Aimed}
       /\ (/\ Answered("restore_task")
           /\ resp'.target \in TaskIdsOf(tasks)
           /\ Aimed.created_by_user_id = resp'.user)
             => IF Aimed.archived_at = NoId
                THEN resp'.status = 400 /\ tasks' = tasks
                ELSE /\ resp'.status = 200
                     /\ tasks' = (tasks \ {Aimed}) \cup
                                    {[Aimed EXCEPT !.archived_at = NoId,
                                                   !.is_completed = FALSE,
                                                   !.completed_at = NoId]}
       /\ (/\ Answered("delete_task")
           /\ resp'.target \in TaskIdsOf(tasks)
           /\ Aimed.created_by_user_id = resp'.user)
             => /\ resp'.status = 204
                /\ TaskIdsOf(tasks') = TaskIdsOf(tasks)
                /\ \A t \in tasks' : t.id = resp'.target => t.archived_at # NoId
       /\ TaskIdsOf(tasks') \ TaskIdsOf(tasks) # {}
             => resp'.op = "create_task" /\ resp'.status = 201
       /\ Answered("list_tasks") => resp'.listing \subseteq TaskIdsOf(tasks)]_vars

\* The permanent delete of an archived task was answered 204 and the task
\* has no row any more.
C24_Witness ==
    /\ resp.op = "permanent_delete_task"
    /\ resp.status = 204
    /\ ~\E t \in tasks : t.id = resp.target

\* The three fields toggle_completion(true) sets.
CompletedFields(t) ==
    /\ t.is_completed
    /\ t.completed_at # NoId
    /\ t.archived_at # NoId

\* C25: an update that sends is_completed = true, by the creator or the
\* assignee, leaves the task completed with completed_at and archived_at
\* set; one that sends false leaves all three cleared; and in every state
\* completed_at is set exactly when is_completed holds, and a completed task
\* is archived.
C25_CompletionArchives ==
    [][/\ \A t \in tasks : /\ t.completed_at # NoId <=> t.is_completed
                           /\ t.is_completed => t.archived_at # NoId
       /\ \A t \in tasks' : /\ t.completed_at # NoId <=> t.is_completed
                            /\ t.is_completed => t.archived_at # NoId
       /\ (/\ Answered("update_task")
           /\ resp'.status = 200
           /\ \A t \in tasks' : t.id = resp'.target => t.is_completed
           /\ \E t \in tasks : t.id = resp'.target /\ ~t.is_completed)
             => \A t \in tasks' : t.id = resp'.target => CompletedFields(t)
       /\ (/\ Answered("update_task")
           /\ resp'.status = 200
           /\ \A t \in tasks' : t.id = resp'.target => ~t.is_completed
           /\ \E t \in tasks : t.id = resp'.target /\ t.is_completed)
             => \A t \in tasks' : t.id = resp'.target =>
                   /\ t.completed_at = NoId
                   /\ t.archived_at = NoId]_vars

\* The assignee completed a task: it is completed and archived.
C25_Witness ==
    /\ resp.op = "update_task"
    /\ resp.status = 200
    /\ \E t \in tasks : /\ t.id = resp.target
                        /\ t.assigned_to_user_id = resp.user
                        /\ t.created_by_user_id # resp.user
                        /\ CompletedFields(t)

-----------------------------------------------------------------------------
(* Properties of the FAQ routes *)

\* The stored answer with id aid before the step, and after it.
AnswerBefore(aid) == CHOOSE a \in faq_answers : a.id = aid

AnswerAfter(aid) == CHOOSE a \in faq_answers' : a.id = aid

\* A step that keeps the row of answer aid.
Kept(aid) == (\E a \in faq_answers : a.id = aid) /\ (\E a \in faq_answers' : a.id = aid)

\* A step that adds the row of answer aid.
Submitted(aid) == ~(\E a \in faq_answers : a.id = aid) /\ (\E a \in faq_answers' : a.id = aid)

\* C26: an answer submitted by a user who does not hold admin starts pending
\* and one submitted by a holder of admin starts approved; a stored answer
\* changes status only from pending to approved or rejected, in a review by
\* a user acting as admin; approving or rejecting an answer that is not
\* pending is answered 400 and changes nothing; the content changes only
\* in an edit by the author of a pending answer; approving an answer of an
\* open question makes the question answered.
C26_AnswerModeration ==
    [][ /\ \A aid \in AnswerIds :
             /\ Submitted(aid) =>
                   /\ resp'.op = "submit_answer"
                   /\ AnswerAfter(aid).created_by_user_id = resp'.user
                   /\ AnswerAfter(aid).status =
                         IF HasRole(resp'.user, "admin") THEN "approved" ELSE "pending"
             /\ Kept(aid) /\ AnswerAfter(aid).status # AnswerBefore(aid).status =>
                   /\ AnswerBefore(aid).status = "pending"
                   /\ \/ resp'.op = "approve_answer" /\ AnswerAfter(aid).status = "approved"
                      \/ resp'.op = "reject_answer" /\ AnswerAfter(aid).status = "rejected"
                   /\ resp'.target = aid
                   /\ role[resp'.user] = "admin"
                   /\ HasRole(resp'.user, "admin")
             /\ Kept(aid) /\ AnswerAfter(aid).content # AnswerBefore(aid).content =>
                   /\ resp'.op = "update_answer"
                   /\ resp'.target = aid
                   /\ AnswerBefore(aid).status = "pending"
                   /\ AnswerAfter(aid).status = "pending"
                   /\ resp'.user = AnswerBefore(aid).created_by_user_id
        /\ \A op \in {"approve_answer", "reject_answer"} :
             Answered(op) /\ role[resp'.user] = "admin"
               /\ (\E a \in faq_answers : a.id = resp'.target /\ a.status # "pending") =>
                   /\ resp'.status = 400
                   /\ faq_answers' = faq_answers
                   /\ faq_questions' = faq_questions
        /\ Answered("update_answer")
             /\ (\E a \in faq_answers : /\ a.id = resp'.target
                                        /\ a.created_by_user_id = resp'.user
                                        /\ a.status # "pending") =>
                   resp'.status = 400 /\ faq_answers' = faq_answers
        /\ Answered("approve_answer") /\ resp'.status = 200 =>
             /\ AnswerBefore(resp'.target).status = "pending"
             /\ AnswerAfter(resp'.target).status = "approved"
             /\ faq_questions[AnswerBefore(resp'.target).question_id].status = "open" =>
                   faq_questions'[AnswerBefore(resp'.target).question_id].status = "answered"
      ]_vars

\* A non-admin's pending answer of an open question was approved and the
\* question is answered, while a second answer, rejected, is still stored.
C26_Witness ==
    /\ resp.op = "approve_answer" /\ resp.status = 200
    /\ \E a \in faq_answers :
          /\ a.id = resp.target /\ a.status = "approved"
          /\ ~HasRole(a.created_by_user_id, "admin")
          /\ a.content = 2
          /\ faq_questions[a.question_id].status = "answered"
    /\ \E a \in faq_answers : a.status = "rejected"

\* The official answers of question q.
OfficialAnswers(q) == {a \in faq_answers : a.question_id = q /\ a.is_official}

\* Every question has at most one official answer and every official
\* answer is approved.
OneOfficialApproved ==
    /\ \A q \in QuestionIds : Cardinality(OfficialAnswers(q)) <= 1
    /\ \A a \in faq_answers : a.is_official => a.status = "approved"

\* mark-official on an answer that is not approved is answered 400 and
\* changes nothing; on an approved answer that is not official it makes that
\* answer the only official one of its question; on an official answer it
\* leaves the question with no official answer; the answers of the other
\* questions stay as they are.
MarkOfficialStep ==
    [][ Answered("mark_official") /\ role[resp'.user] = "admin"
          /\ (\E a \in faq_answers : a.id = resp'.target) =>
          LET a == AnswerBefore(resp'.target)
          IN  /\ a.status # "approved" =>
                    resp'.status = 400 /\ faq_answers' = faq_answers
              /\ a.status = "approved" /\ ~a.is_official =>
                    /\ resp'.status = 200
                    /\ {b.id : b \in {x \in faq_answers' : x.question_id = a.question_id
                                                           /\ x.is_official}} = {a.id}
              /\ a.status = "approved" /\ a.is_official =>
                    /\ resp'.status = 200
                    /\ ~\E x \in faq_answers' : x.question_id = a.question_id /\ x.is_official
              /\ \A x \in faq_answers : x.question_id # a.question_id => x \in faq_answers'
    ]_vars

\* C27: after any sequence of submissions, edits, reviews, official marks
\* and deletions every question has at most one official answer and every
\* official answer is approved; mark-official refuses an answer that is not
\* approved with 400, makes an approved one the only official answer of its
\* question, and takes the mark off an answer that is official.
C27_OneOfficialAnswer == []OneOfficialApproved /\ MarkOfficialStep

\* An approved answer was marked official while a second approved answer of
\* the same question is stored without the mark.
C27_Witness ==
    /\ resp.op = "mark_official" /\ resp.status = 200
    /\ \E a, b \in faq_answers :
          /\ a.id = resp.target /\ a.is_official
          /\ b.id # a.id /\ b.question_id = a.question_id
          /\ b.status = "approved" /\ ~b.is_official

-----------------------------------------------------------------------------
(* Properties of the summary under enrollment changes *)

\* compute_summary has just returned a summary.
SummaryReturned == resp.op = "compute_summary" /\ ~resp.raised

\* C28: a summary returned after any enrolling, unenrolling, adding of
\* assignments and recording of grades has total_graded <= total_assignments
\* and a completion rate between 0 and 100 percent, and every course entry
\* has graded_count <= total_count.
C28_SummaryConsistent ==
    SummaryReturned =>
        /\ resp.summary.total_graded <= resp.summary.total_assignments
        /\ 0 <= resp.summary.completion_rate
        /\ resp.summary.completion_rate <= 10000
        /\ \A c \in DOMAIN resp.summary.course_averages :
              resp.summary.course_averages[c].graded_count
                 <= resp.summary.course_averages[c].total_count

\* Every course entry of a returned summary has graded_count <= total_count
\* and a completion rate between 0 and 100 percent.
CourseEntriesConsistent ==
    SummaryReturned =>
        \A c \in DOMAIN resp.summary.course_averages :
           /\ resp.summary.course_averages[c].graded_count
                 <= resp.summary.course_averages[c].total_count
           /\ resp.summary.course_averages[c].completion_rate <= 10000

\* A summary of a student who left a course after being graded in it.
GradedThenLeft ==
    /\ SummaryReturned
    /\ \E r \in student_assignments :
          /\ r.student_id = resp.student /\ r.grade # NoId
          /\ <<r.student_id, assignments[r.assignment_id].course_id>> \notin student_courses

-----------------------------------------------------------------------------
(* Properties of the course listing *)

\* No course with a teacher is private.
TaughtCoursesPublic ==
    \A c \in DOMAIN courses : courses[c].teacher_id # NoId => ~courses[c].is_private

\* C29: in every state reached through the course routes, a course is in
\* the listing of a user exactly when can_access_course grants that user the
\* course, and the last answer of list_courses is that listing.
C29_ListingIsGate ==
    /\ \A u \in Users, c \in CourseIds \cup DOMAIN courses :
          c \in list_courses(u) <=> can_access_course(u, c)
    /\ resp.op = "list_courses" =>
          \A c \in CourseIds \cup DOMAIN courses :
             c \in resp.listing <=> can_access_course(resp.user, c)

\* The listing of a student showed a private course of someone else that
\* the student was added to.
C29_Witness ==
    /\ resp.op = "list_courses"
    /\ role[resp.user] = "student"
    /\ \E c \in resp.listing :
          /\ courses[c].is_private
          /\ courses[c].created_by_user_id # resp.user
          /\ <<StudentOfUser(resp.user), c>> \in student_courses

====
